---- MODULE Spec2Model ----
(***************************************************************************)
(* StockaDoodle inventory API: the category and product route handlers of *)
(* api_server/routes, the coercion helpers of api_server/utils/helpers.py *)
(* and the activity log they write, as a state machine over the persisted *)
(* store; with them the retailer metrics routes, the desktop API client   *)
(* and its MFA dialog.                                                     *)
(*                                                                         *)
(* Request values are tagged records [k, s, i]: k is the JSON/Python type  *)
(* ("null", "str", "int", "date", "bytes"), s the characters of a string   *)
(* (a sequence of one-character strings), i the number of an int, the      *)
(* yyyymmdd number of a date or the content of a byte string.              *)
(***************************************************************************)
EXTENDS Integers, Sequences, FiniteSets, TLC

VARIABLES
    categories,   \* table categories: id -> [name, description, category_image]
    products,     \* table products: id -> [name, brand, price, category_id, ...]
    log,          \* the activity log, a sequence of entries
    last,         \* the last request served: handler, row id, response, pending changes
    steps,        \* number of requests served so far
    workers,      \* requests in flight between their check and their commit
    client,       \* the API client's last call: what the transport gave, what _request made of it
    refused,      \* ids of the categories a DELETE was answered 400 for
    sales,        \* retailer metrics rows and the calls SalesManager has received
    mfa           \* the MFA dialog: input text, result, signals emitted, codes sent

vars == <<categories, products, log, last, steps, workers, client, refused, sales, mfa>>

----------------------------------------------------------------------------
\* Bounds of the model.

\* requests served in one behaviour
MaxSteps == 3
\* fields (and uploaded files) one request body carries
MaxKeys == 2
\* requests served concurrently
NumWorkers == 2
\* calls the API client makes in one behaviour
MaxCalls == 2
\* requests served in one behaviour of the reference scenario
MaxRefSteps == 5
\* codes one MFA dialog sends to the API
MaxAttempts == 2

----------------------------------------------------------------------------
\* Values.

Null == [k |-> "null", s |-> <<>>, i |-> 0]
Str(chars) == [k |-> "str", s |-> chars, i |-> 0]
Int_(n) == [k |-> "int", s |-> <<>>, i |-> n]
Date(n) == [k |-> "date", s |-> <<>>, i |-> n]
Bytes(n) == [k |-> "bytes", s |-> <<>>, i |-> n]

\* Python truth value: None, "", 0 and b"" are false.
Truthy(v) ==
    CASE v.k = "null" -> FALSE
      [] v.k = "str" -> v.s # <<>>
      [] v.k = "int" -> v.i # 0
      [] v.k = "bytes" -> v.i # 1
      [] OTHER -> TRUE

\* a or b
Or(a, b) == IF Truthy(a) THEN a ELSE b

\* dict.get(key): None when the key is missing
Get(data, key) == IF key \in DOMAIN data THEN data[key] ELSE Null

\* data[key] = value
DictSet(data, key, value) ==
    [f \in DOMAIN data \cup {key} |-> IF f = key THEN value ELSE data[f]]

DigitChars == <<"0", "1", "2", "3", "4", "5", "6", "7", "8", "9">>

IsDigit(c) == \E d \in 1..10 : DigitChars[d] = c

DigitVal(c) == (CHOOSE d \in 1..10 : DigitChars[d] = c) - 1

AllDigits(chars) == chars # <<>> /\ \A j \in 1..Len(chars) : IsDigit(chars[j])

RECURSIVE DecimalValue(_)
DecimalValue(chars) ==
    IF chars = <<>> THEN 0
    ELSE 10 * DecimalValue(SubSeq(chars, 1, Len(chars) - 1)) + DigitVal(chars[Len(chars)])

\* int(text) succeeds: an optional sign and decimal digits
IsIntLiteral(chars) ==
    IF chars # <<>> /\ chars[1] \in {"-", "+"} THEN AllDigits(Tail(chars)) ELSE AllDigits(chars)

IntOfLiteral(chars) ==
    IF chars[1] = "-" THEN 0 - DecimalValue(Tail(chars))
    ELSE IF chars[1] = "+" THEN DecimalValue(Tail(chars))
    ELSE DecimalValue(chars)

\* a text that is not a number is read as 0 instead of giving the default
extract_int_zero_on_failure(value, default) ==
    CASE value.k = "null" -> default
      [] value.k = "int" -> value
      [] value.k = "str" ->
            IF value.s = <<>> THEN default
            ELSE IF IsIntLiteral(value.s) THEN Int_(IntOfLiteral(value.s))
            ELSE Int_(0)
      [] OTHER -> default

\* the default is dropped: a missing or empty value gives None
extract_int_no_default(value, default) ==
    CASE value.k = "null" -> Null
      [] value.k = "int" -> value
      [] value.k = "str" ->
            IF value.s = <<>> THEN Null
            ELSE IF IsIntLiteral(value.s) THEN Int_(IntOfLiteral(value.s))
            ELSE Null
      [] OTHER -> Null

\* helpers.extract_int: int(value) unless value is None or "", default on failure
extract_int(value, default) ==
    CASE value.k = "null" -> default
      [] value.k = "int" -> value
      [] value.k = "str" ->
            IF value.s = <<>> THEN default
            ELSE IF IsIntLiteral(value.s) THEN Int_(IntOfLiteral(value.s))
            ELSE default
      [] OTHER -> default

----------------------------------------------------------------------------
\* helpers.parse_date

RECURSIVE SplitOn(_, _)
\* text.split(sep) for a one-character separator
SplitOn(chars, sep) ==
    IF \E j \in 1..Len(chars) : chars[j] = sep
    THEN LET j == CHOOSE x \in 1..Len(chars) :
                      chars[x] = sep /\ \A y \in 1..(x - 1) : chars[y] # sep
         IN  <<SubSeq(chars, 1, j - 1)>> \o SplitOn(SubSeq(chars, j + 1, Len(chars)), sep)
    ELSE <<chars>>

IsLeap(y) == (y % 4 = 0 /\ y % 100 # 0) \/ y % 400 = 0

DaysIn(y, m) ==
    IF m = 2 THEN (IF IsLeap(y) THEN 29 ELSE 28)
    ELSE IF m \in {4, 6, 9, 11} THEN 30 ELSE 31

\* one or two digits, as %m %d %H %M %S accept
Digits12(chars) == Len(chars) \in {1, 2} /\ AllDigits(chars)

\* "%Y-%m-%d" matches the text and names a day of the calendar
DateOk(chars) ==
    LET p == SplitOn(chars, "-")
    IN  /\ Len(p) = 3
        /\ Len(p[1]) = 4 /\ AllDigits(p[1])
        /\ Digits12(p[2]) /\ Digits12(p[3])
        /\ DecimalValue(p[1]) >= 1
        /\ DecimalValue(p[2]) \in 1..12
        /\ DecimalValue(p[3]) \in 1..DaysIn(DecimalValue(p[1]), DecimalValue(p[2]))

\* "%H:%M:%S" matches the text
TimeOk(chars) ==
    LET p == SplitOn(chars, ":")
    IN  /\ Len(p) = 3
        /\ Digits12(p[1]) /\ Digits12(p[2]) /\ Digits12(p[3])
        /\ DecimalValue(p[1]) \in 0..23
        /\ DecimalValue(p[2]) \in 0..59
        /\ DecimalValue(p[3]) \in 0..61

DateOf(chars) ==
    LET p == SplitOn(chars, "-")
    IN  Date(DecimalValue(p[1]) * 10000 + DecimalValue(p[2]) * 100 + DecimalValue(p[3]))

\* the text matches the format "%Y-%m-%d" & sep & "%H:%M:%S"
DateTimeOk(chars, sep) ==
    LET p == SplitOn(chars, sep)
    IN  Len(p) = 2 /\ DateOk(p[1]) /\ TimeOk(p[2])

parse_date(value) ==
    IF ~Truthy(value) THEN Null
    ELSE IF DateOk(value.s) THEN DateOf(value.s)
    ELSE IF DateTimeOk(value.s, "T") THEN DateOf(SplitOn(value.s, "T")[1])
    ELSE IF DateTimeOk(value.s, " ") THEN DateOf(SplitOn(value.s, " ")[1])
    ELSE Null

----------------------------------------------------------------------------
\* base64.b64decode, as helpers.get_image_blob calls it (validate = False).

B64Alphabet ==
    <<
    "A", "B", "C", "D", "E", "F", "G", "H", "I", "J", "K", "L", "M", "N", "O", "P",
    "Q", "R", "S", "T", "U", "V", "W", "X", "Y", "Z", "a", "b", "c", "d", "e", "f",
    "g", "h", "i", "j", "k", "l", "m", "n", "o", "p", "q", "r", "s", "t", "u", "v",
    "w", "x", "y", "z", "0", "1", "2", "3", "4", "5", "6", "7", "8", "9", "+", "/"
    >>

IsB64(c) == \E j \in 1..64 : B64Alphabet[j] = c

B64Val(c) == (CHOOSE j \in 1..64 : B64Alphabet[j] = c) - 1

RECURSIVE B64Scan(_, _, _, _)
\* The decoder's loop: characters outside the alphabet are skipped, a pad
\* sequence that completes a quad ends the input, and the input must not
\* end inside a quad. quad is the position in the quad, pads the pads seen.
B64Scan(chars, quad, pads, sextets) ==
    IF chars = <<>> THEN [ok |-> quad = 0, sextets |-> sextets]
    ELSE IF Head(chars) = "="
         THEN IF quad >= 2 /\ quad + pads + 1 >= 4
              THEN [ok |-> TRUE, sextets |-> sextets]
              ELSE B64Scan(Tail(chars), quad, IF quad >= 2 THEN pads + 1 ELSE pads, sextets)
    ELSE IF ~IsB64(Head(chars)) THEN B64Scan(Tail(chars), quad, pads, sextets)
    ELSE B64Scan(Tail(chars), (quad + 1) % 4, 0, Append(sextets, B64Val(Head(chars))))

RECURSIVE SextetsValue(_)
SextetsValue(sextets) ==
    IF sextets = <<>> THEN 0
    ELSE 64 * SextetsValue(SubSeq(sextets, 1, Len(sextets) - 1)) + sextets[Len(sextets)]

RECURSIVE Pow(_, _)
Pow(b, e) == IF e = 0 THEN 1 ELSE b * Pow(b, e - 1)

\* The bytes of a run of sextets: the whole bytes of its bits, written as the
\* number 256^n + (the n bytes read big-endian), so that b"" is Bytes(1).
BytesOfSextets(sextets) ==
    LET bits == 6 * Len(sextets)
        n == bits \div 8
    IN  Bytes(Pow(256, n) + (SextetsValue(sextets) \div Pow(2, bits % 8)))

\* try: base64.b64decode(raw) except Exception: None
b64decode_or_none(raw) ==
    IF raw.k # "str" THEN Null
    ELSE LET r == B64Scan(raw.s, 0, 0, <<>>)
         IN  IF r.ok THEN BytesOfSextets(r.sextets) ELSE Null

RECURSIVE ByteLen(_)
\* the number of bytes of the content n of a byte string
ByteLen(n) == IF n < 256 THEN 0 ELSE 1 + ByteLen(n \div 256)

\* base64.b64encode(image).decode('utf-8'): every three bytes give four
\* characters, the last group filled with "="
b64encode(image) ==
    LET n == ByteLen(image.i)
        pad == (3 - (n % 3)) % 3
        m == 4 * ((n + pad) \div 3)
        bits == (image.i - Pow(256, n)) * Pow(256, pad)
    IN  Str([j \in 1..m |->
                IF j > m - pad THEN "="
                ELSE B64Alphabet[((bits \div Pow(64, m - j)) % 64) + 1]])

----------------------------------------------------------------------------
\* Requests: [is_form, data, file]. data is the form (is_form) or the JSON
\* object of the body, a function from the keys it carries to values; file is
\* the part "image" of a multipart body.

NoFile == [present |-> FALSE, filename |-> <<>>, content |-> Null]

\* request.form
Form(req) == IF req.is_form THEN req.data ELSE << >>

\* request.get_json(silent=True) or {}
Json(req) == IF req.is_form THEN << >> ELSE req.data

\* the lookup order reversed: image_base64 before the uploaded file
get_image_blob_base64_first(req) ==
    LET raw == Or(Get(Form(req), "image_base64"), Get(Json(req), "image_base64"))
    IN  IF Truthy(raw) THEN b64decode_or_none(raw)
        ELSE IF req.file.present /\ req.file.filename # <<>> THEN req.file.content
        ELSE Null

\* helpers.get_image_blob
get_image_blob(req) ==
    IF req.file.present /\ req.file.filename # <<>> THEN req.file.content
    ELSE LET raw == Or(Get(Form(req), "image_base64"), Get(Json(req), "image_base64"))
         IN  IF Truthy(raw) THEN b64decode_or_none(raw) ELSE Null

----------------------------------------------------------------------------
\* The store and the responses.

\* INTEGER PRIMARY KEY of a new row: one more than the largest id of the table
NewId(table) ==
    IF DOMAIN table = {} THEN 1
    ELSE (CHOOSE m \in DOMAIN table : \A j \in DOMAIN table : j <= m) + 1

\* the table with one row added or replaced
Put(table, id, row) == [j \in DOMAIN table \cup {id} |-> IF j = id THEN row ELSE table[j]]

\* DELETE with a filter that also matches the rows of lower id
RemoveThrough(table, id) == [j \in {k \in DOMAIN table : k > id} |-> table[j]]

\* db.session.delete(row)
Remove(table, id) == [j \in DOMAIN table \ {id} |-> table[j]]

\* db.session: what the tables hold once a request ends without a commit.
\* The changes a handler made to its row objects are not written.
Uncommitted == [categories |-> categories, products |-> products]

\* the JSON body of a response that is not the serialisation of rows
NoBody == << >>

\* What a handler leaves behind: the response (status, errors, and body: the
\* rows it serialises), the persisted store and the fields it assigned on a
\* row object without committing them (pending).
Outcome(status, errors, cats, prods, lg) ==
    [status |-> status, errors |-> errors, categories |-> cats, products |-> prods, log |-> lg,
     pending |-> {}, body |-> NoBody]

\* jsonify(row.to_dict(...)), status, after the commit
Respond(out, body) == [out EXCEPT !.body = body]

\* Category.to_dict
to_dict(id, category, include_image) ==
    LET data == [id |-> Int_(id), name |-> category.name, description |-> category.description]
    IN  IF include_image /\ Truthy(category.category_image)
        THEN DictSet(data, "image_base64", b64encode(category.category_image))
        ELSE data

\* Product.to_dict
product_to_dict(id, product, include_image) ==
    LET data == [id |-> Int_(id), name |-> product.name, brand |-> product.brand,
                 price |-> product.price, category_id |-> product.category_id,
                 stock_level |-> product.stock_level,
                 min_stock_level |-> product.min_stock_level,
                 expiration_date |-> product.expiration_date]
    IN  IF include_image /\ Truthy(product.image_blob)
        THEN DictSet(data, "image_base64", b64encode(product.image_blob))
        ELSE data

\* jsonify({"errors": [message]}), status, returned before any commit
Fail(status, message) ==
    Outcome(status, <<message>>, Uncommitted.categories, Uncommitted.products, log)

\* get_or_404 on an id the table does not hold
NotFound == Outcome(404, <<"Not Found">>, Uncommitted.categories, Uncommitted.products, log)

\* ActivityLogger.log_api_activity: one entry appended to the log
log_api_activity(lg, method, target_entity, user_id, details) ==
    Append(lg, [method |-> method, target_entity |-> target_entity,
                user_id |-> user_id, details |-> details])

Details(text, names, changes) == [text |-> text, names |-> names, changes |-> changes]

----------------------------------------------------------------------------
\* routes/category.py

\* request.args.get('include_image') == 'true'
IncludeImage(args) == Get(args, "include_image") = Str(<<"t", "r", "u", "e">>)

\* the characters of the names, in the order of their codes
AsciiChars ==
    <<
    " ", "+", "-", "/", "0", "1", "2", "3", "4", "5", "6", "7", "8", "9", ":", "=",
    "A", "B", "C", "D", "E", "F", "G", "H", "I", "J", "K", "L", "M", "N", "O", "P",
    "Q", "R", "S", "T", "U", "V", "W", "X", "Y", "Z", "a", "b", "c", "d", "e", "f",
    "g", "h", "i", "j", "k", "l", "m", "n", "o", "p", "q", "r", "s", "t", "u", "v",
    "w", "x", "y", "z"
    >>

CharCode(c) == CHOOSE j \in 1..Len(AsciiChars) : AsciiChars[j] = c

RECURSIVE TextBefore(_, _)
\* a sorts before b, character by character
TextBefore(a, b) ==
    IF b = <<>> THEN FALSE
    ELSE IF a = <<>> THEN TRUE
    ELSE IF Head(a) = Head(b) THEN TextBefore(Tail(a), Tail(b))
    ELSE CharCode(Head(a)) < CharCode(Head(b))

RECURSIVE OrderByName(_)
\* Category.query.order_by(Category.name).all(), as the ids of the rows
OrderByName(ids) ==
    IF ids = {} THEN <<>>
    ELSE LET first == CHOOSE c \in ids : \A d \in ids :
                          \/ TextBefore(categories[c].name.s, categories[d].name.s)
                          \/ (categories[c].name = categories[d].name /\ c <= d)
         IN  <<first>> \o OrderByName(ids \ {first})

\* GET /categories
list_categories(args) ==
    LET ids == OrderByName(DOMAIN categories)
    IN  Respond(Outcome(200, <<>>, categories, products, log),
                [total |-> Len(ids),
                 categories |-> [j \in 1..Len(ids) |->
                                   to_dict(ids[j], categories[ids[j]], IncludeImage(args))]])

\* GET /categories/<id>
get_category(cat_id, args) ==
    IF cat_id \notin DOMAIN categories THEN NotFound
    ELSE Respond(Outcome(200, <<>>, categories, products, log),
                 to_dict(cat_id, categories[cat_id], IncludeImage(args)))

\* the query also sees the rows of requests that have not committed yet
CategoryNamedOrInFlight(name) ==
    \/ \E c \in DOMAIN categories : categories[c].name = name
    \/ \E w \in DOMAIN workers : workers[w].pc = "checked" /\ workers[w].row.name = name

\* the query filters on the description column instead of the name
CategoryNamedWrongColumn(name) ==
    \E c \in DOMAIN categories : categories[c].description = name

\* Category.query.filter_by(name=name).first()
CategoryNamed(name) == \E c \in DOMAIN categories : categories[c].name = name

\* the query does not exclude the row itself
OtherCategoryNamedIncludingSelf(name, cat_id) ==
    \E c \in DOMAIN categories : categories[c].name = name

\* the query keeps the row itself instead of excluding it
OtherCategoryNamedSameId(name, cat_id) ==
    \E c \in DOMAIN categories : c = cat_id /\ categories[c].name = name

\* Category.query.filter(Category.name == name, Category.id != cat_id).first()
OtherCategoryNamed(name, cat_id) ==
    \E c \in DOMAIN categories : c # cat_id /\ categories[c].name = name

\* POST /categories
create_category(req) ==
    LET data == req.data
        name == Get(data, "name")
        category == [name |-> name,
                     description |-> Get(data, "description"),
                     category_image |-> get_image_blob(req)]
        user_id == Get(data, "user_id")
        cats == Put(categories, NewId(categories), category)
    IN  IF ~Truthy(name) THEN Fail(400, "Category name is required")
        ELSE IF CategoryNamed(name) THEN Fail(400, "Category name already exists")
        ELSE Respond(Outcome(201, <<>>, cats, products,
                             IF Truthy(user_id)
                             THEN log_api_activity(log, "POST", "category", user_id,
                                                   Details("Created category", <<name.s>>, <<>>))
                             ELSE log),
                     to_dict(NewId(categories), category, TRUE))

\* PUT /categories/<id>
replace_category(cat_id, req) ==
    IF cat_id \notin DOMAIN categories THEN NotFound
    ELSE
    LET data == req.data
        category == categories[cat_id]
        name == Get(data, "name")
        new_image == get_image_blob(req)
        replaced == [name |-> name,
                     description |-> Get(data, "description"),
                     category_image |-> IF new_image # Null THEN new_image
                                        ELSE category.category_image]
    IN  IF ~Truthy(name) THEN Fail(400, "Category name is required for PUT")
        ELSE IF OtherCategoryNamed(name, cat_id) THEN Fail(400, "Category name already exists")
        ELSE Respond(Outcome(200, <<>>, Put(categories, cat_id, replaced), products,
                             log_api_activity(log, "PUT", "category", Get(data, "user_id"),
                                              Details("Replaced category",
                                                      <<category.name.s, name.s>>, <<>>))),
                     to_dict(cat_id, replaced, TRUE))

\* the description is assigned as PUT assigns it, supplied or not
update_category_put_semantics(cat_id, req) ==
    IF cat_id \notin DOMAIN categories THEN NotFound
    ELSE
    LET data == req.data
        category == categories[cat_id]
        new_image == get_image_blob(req)
        updated == [name |-> IF "name" \in DOMAIN data THEN data["name"] ELSE category.name,
                    description |-> Get(data, "description"),
                    category_image |-> IF new_image # Null THEN new_image
                                       ELSE category.category_image]
    IN  IF "name" \in DOMAIN data /\ ~Truthy(data["name"])
        THEN Fail(400, "Category name cannot be empty")
        ELSE IF "name" \in DOMAIN data /\ OtherCategoryNamed(data["name"], cat_id)
        THEN Fail(400, "Category name already exists")
        ELSE Respond(Outcome(200, <<>>, Put(categories, cat_id, updated), products,
                             log_api_activity(log, "PATCH", "category", Get(data, "user_id"),
                                              Details("Updated category",
                                                      <<category.name.s, updated.name.s>>, <<>>))),
                     to_dict(cat_id, updated, TRUE))

\* PATCH /categories/<id>
update_category(cat_id, req) ==
    IF cat_id \notin DOMAIN categories THEN NotFound
    ELSE
    LET data == req.data
        category == categories[cat_id]
        new_image == get_image_blob(req)
        updated == [name |-> IF "name" \in DOMAIN data THEN data["name"] ELSE category.name,
                    description |-> IF "description" \in DOMAIN data THEN data["description"]
                                    ELSE category.description,
                    category_image |-> IF new_image # Null THEN new_image
                                       ELSE category.category_image]
        changes == (IF "name" \in DOMAIN data THEN <<"name">> ELSE <<>>)
                   \o (IF "description" \in DOMAIN data THEN <<"description updated">> ELSE <<>>)
                   \o (IF new_image # Null THEN <<"image updated">> ELSE <<>>)
    IN  IF "name" \in DOMAIN data /\ ~Truthy(data["name"])
        THEN Fail(400, "Category name cannot be empty")
        ELSE IF "name" \in DOMAIN data /\ OtherCategoryNamed(data["name"], cat_id)
        THEN Fail(400, "Category name already exists")
        ELSE Respond(Outcome(200, <<>>, Put(categories, cat_id, updated), products,
                             log_api_activity(log, "PATCH", "category", Get(data, "user_id"),
                                              Details("Updated category",
                                                      <<category.name.s, updated.name.s>>, changes))),
                     to_dict(cat_id, updated, TRUE))

\* the relationship joins on the product's own id
ProductsOfById(cat_id) == {p \in DOMAIN products : p = cat_id}

\* the relationship never reloaded for a category whose deletion was refused
ProductsOfStale(cat_id) ==
    IF cat_id \in refused THEN DOMAIN products
    ELSE {p \in DOMAIN products : products[p].category_id = Int_(cat_id)}

\* category.products: the products whose category_id is the category's id
ProductsOf(cat_id) == {p \in DOMAIN products : products[p].category_id = Int_(cat_id)}

\* the activity logged before the linked-products check
delete_category_logs_first(cat_id, req) ==
    IF cat_id \notin DOMAIN categories THEN NotFound
    ELSE LET logged == log_api_activity(log, "DELETE", "category", Get(Json(req), "user_id"),
                                        Details("Deleted category",
                                                <<categories[cat_id].name.s>>, <<>>))
         IN  IF ProductsOf(cat_id) # {}
             THEN Outcome(400, <<"Cannot delete category while it has linked products">>,
                          categories, products, logged)
             ELSE Respond(Outcome(200, <<>>, Remove(categories, cat_id), products, logged),
                          [message |-> <<"Category", categories[cat_id].name.s,
                                         "deleted successfully">>])

\* DELETE /categories/<id>
delete_category(cat_id, req) ==
    IF cat_id \notin DOMAIN categories THEN NotFound
    ELSE IF ProductsOf(cat_id) # {}
    THEN Fail(400, "Cannot delete category while it has linked products")
    ELSE Respond(Outcome(200, <<>>, Remove(categories, cat_id), products,
                         log_api_activity(log, "DELETE", "category", Get(Json(req), "user_id"),
                                          Details("Deleted category",
                                                  <<categories[cat_id].name.s>>, <<>>))),
                 [message |-> <<"Category", categories[cat_id].name.s, "deleted successfully">>])

----------------------------------------------------------------------------
\* routes/products.py

\* extract_int(data.get('stock_level'), 0) of create_product
DEFAULT_STOCK_LEVEL == 0

\* extract_int(data.get('min_stock_level'), 10) of create_product
DEFAULT_MIN_STOCK_LEVEL == 10

\* Category.query.get(category_id)
CategoryExists(category_id) == category_id.i \in DOMAIN categories

UpperCase ==
    <<"A", "B", "C", "D", "E", "F", "G", "H", "I", "J", "K", "L", "M",
      "N", "O", "P", "Q", "R", "S", "T", "U", "V", "W", "X", "Y", "Z">>

LowerCase ==
    <<"a", "b", "c", "d", "e", "f", "g", "h", "i", "j", "k", "l", "m",
      "n", "o", "p", "q", "r", "s", "t", "u", "v", "w", "x", "y", "z">>

\* the text in lower case
Lower(chars) ==
    [j \in 1..Len(chars) |->
        IF \E u \in 1..26 : UpperCase[u] = chars[j]
        THEN LowerCase[CHOOSE u \in 1..26 : UpperCase[u] = chars[j]]
        ELSE chars[j]]

\* Product.name.ilike("%" + search + "%"), for a search without % and _
NameLike(name, search) ==
    /\ name.k = "str"
    /\ \E j \in 1..(Len(name.s) - Len(search) + 1) :
          SubSeq(Lower(name.s), j, j + Len(search) - 1) = Lower(search)

\* filter_by(category_id=category_id) for the text of the query string
InCategory(product, text) ==
    IsIntLiteral(text) /\ product.category_id = Int_(IntOfLiteral(text))

RECURSIVE InIdOrder(_)
\* the ids of a set of rows in the order of the table
InIdOrder(ids) ==
    IF ids = {} THEN <<>>
    ELSE LET first == CHOOSE p \in ids : \A q \in ids : p <= q
         IN  <<first>> \o InIdOrder(ids \ {first})

\* GET /products
list_product(args) ==
    LET search == Get(args, "search")
        category_id == Get(args, "category_id")
        found == {p \in DOMAIN products :
                    /\ Truthy(search) => NameLike(products[p].name, search.s)
                    /\ Truthy(category_id) => InCategory(products[p], category_id.s)}
        ids == InIdOrder(found)
    IN  Respond(Outcome(200, <<>>, categories, products, log),
                [j \in 1..Len(ids) |->
                    product_to_dict(ids[j], products[ids[j]], IncludeImage(args))])

\* GET /products/<id>
get_product(id, args) ==
    IF id \notin DOMAIN products THEN NotFound
    ELSE Respond(Outcome(200, <<>>, categories, products, log),
                 product_to_dict(id, products[id], IncludeImage(args)))

\* POST /products
create_product(req) ==
    LET data == req.data
        price == extract_int(Get(data, "price"), Null)
        category_id == IF Truthy(Get(data, "category_id"))
                       THEN extract_int(data["category_id"], Null)
                       ELSE Null
        product == [name |-> Get(data, "name"),
                    brand |-> Get(data, "brand"),
                    price |-> price,
                    category_id |-> category_id,
                    stock_level |-> extract_int(Get(data, "stock_level"), Int_(DEFAULT_STOCK_LEVEL)),
                    min_stock_level |->
                        extract_int(Get(data, "min_stock_level"), Int_(DEFAULT_MIN_STOCK_LEVEL)),
                    expiration_date |-> parse_date(Get(data, "expiration_date")),
                    image_blob |-> get_image_blob(req)]
    IN  IF ~Truthy(Get(data, "name")) THEN Fail(400, "Product name is required")
        ELSE IF price = Null THEN Fail(400, "Price must be a number")
        ELSE IF Truthy(category_id) /\ ~CategoryExists(category_id)
        THEN Fail(400, "Invalid category ID")
        ELSE Respond(Outcome(201, <<>>, categories, Put(products, NewId(products), product), log),
                     product_to_dict(NewId(products), product, FALSE))

\* PUT /products/<id>
replace_product(product_id, req) ==
    IF product_id \notin DOMAIN products THEN NotFound
    ELSE
    LET data == req.data
        product == products[product_id]
        price == extract_int(Get(data, "price"), Null)
        category_id == IF "category_id" \in DOMAIN data
                       THEN extract_int(data["category_id"], Null)
                       ELSE Null
        new_image == get_image_blob(req)
        replaced == [name |-> Get(data, "name"),
                     brand |-> Get(data, "brand"),
                     price |-> price,
                     category_id |-> category_id,
                     stock_level |-> extract_int(Get(data, "stock_level"), product.stock_level),
                     min_stock_level |->
                         extract_int(Get(data, "min_stock_level"), product.min_stock_level),
                     expiration_date |->
                         Or(parse_date(Get(data, "expiration_date")), product.expiration_date),
                     image_blob |-> IF new_image # Null THEN new_image ELSE product.image_blob]
    IN  IF "name" \notin DOMAIN data THEN Fail(400, "Product name is required for PUT")
        ELSE IF price = Null THEN Fail(400, "Price must be a number")
        ELSE IF Truthy(category_id) /\ ~CategoryExists(category_id)
        THEN Fail(400, "Invalid category ID")
        ELSE Respond(Outcome(200, <<>>, categories, Put(products, product_id, replaced), log),
                     product_to_dict(product_id, replaced, FALSE))

\* the assignment runs whether or not the body carries the key
IfSuppliedAlways(data, key, new, old) == new

\* if key in data: row.field = new
IfSupplied(data, key, new, old) == IF key \in DOMAIN data THEN new ELSE old

\* the row as the handler's assignments leave it in the session
PatchedRow(product, req) ==
    LET data == req.data
        new_image == get_image_blob(req)
    IN  [name |-> IfSupplied(data, "name", Get(data, "name"), product.name),
         brand |-> IfSupplied(data, "brand", Get(data, "brand"), product.brand),
         price |-> IfSupplied(data, "price", extract_int(Get(data, "price"), Null), product.price),
         category_id |-> IfSupplied(data, "category_id",
                                    extract_int(Get(data, "category_id"), Null),
                                    product.category_id),
         stock_level |-> IfSupplied(data, "stock_level", Get(data, "stock_level"),
                                    product.stock_level),
         min_stock_level |-> IfSupplied(data, "min_stock_level", Get(data, "min_stock_level"),
                                        product.min_stock_level),
         expiration_date |-> IfSupplied(data, "expiration_date",
                                        parse_date(Get(data, "expiration_date")),
                                        product.expiration_date),
         image_blob |-> IF new_image # Null THEN new_image ELSE product.image_blob]

\* the price assigned before the category check is written although the
\* request fails
patch_product_early_write(id, req) ==
    IF id \notin DOMAIN products THEN NotFound
    ELSE
    LET data == req.data
        Has(key) == key \in DOMAIN data
        price == extract_int(Get(data, "price"), Null)
        cat_id == extract_int(Get(data, "category_id"), Null)
    IN  IF Has("name") /\ ~Truthy(data["name"]) THEN Fail(400, "Product name cannot be empty")
        ELSE IF Has("price") /\ price = Null THEN Fail(400, "Price must be a number")
        ELSE IF Has("category_id") /\ Truthy(cat_id) /\ ~CategoryExists(cat_id)
        THEN Outcome(400, <<"Invalid category ID">>, categories,
                     Put(products, id,
                         [products[id] EXCEPT !.price = IfSupplied(data, "price", price, @)]),
                     log)
        ELSE Respond(Outcome(200, <<>>, categories,
                             Put(products, id, PatchedRow(products[id], req)), log),
                     product_to_dict(id, PatchedRow(products[id], req), FALSE))

\* PATCH /products/<id>
patch_product(id, req) ==
    IF id \notin DOMAIN products THEN NotFound
    ELSE
    LET data == req.data
        Has(key) == key \in DOMAIN data
        price == extract_int(Get(data, "price"), Null)
        cat_id == extract_int(Get(data, "category_id"), Null)
    IN  IF Has("name") /\ ~Truthy(data["name"]) THEN Fail(400, "Product name cannot be empty")
        ELSE IF Has("price") /\ price = Null THEN Fail(400, "Price must be a number")
        ELSE IF Has("category_id") /\ Truthy(cat_id) /\ ~CategoryExists(cat_id)
        THEN [Fail(400, "Invalid category ID") EXCEPT
                  !.pending = IF Has("price") THEN {"price"} ELSE {}]
        ELSE Respond(Outcome(200, <<>>, categories,
                             Put(products, id, PatchedRow(products[id], req)), log),
                     product_to_dict(id, PatchedRow(products[id], req), FALSE))

\* the row is not looked up before it is deleted
delete_product_no_lookup(id) == Outcome(200, <<>>, categories, Remove(products, id), log)

\* DELETE /products/<id>
delete_product(id) ==
    IF id \notin DOMAIN products THEN NotFound
    ELSE Respond(Outcome(200, <<>>, categories, Remove(products, id), log),
                 [message |-> "Product deleted successfully"])

----------------------------------------------------------------------------
\* desktop_app/api_client/stockadoodle_api.py: StockaDoodleAPI._request and
\* what the transport hands it.

\* what requests.request gives: a response, or an exception with its str()
HttpResponse(status_code, is_json, data, text) ==
    [kind |-> "response", status_code |-> status_code, is_json |-> is_json,
     data |-> data, text |-> text, type |-> "Response"]

TransportError(type, text) ==
    [kind |-> "exception", status_code |-> 0, is_json |-> FALSE,
     data |-> << >>, text |-> text, type |-> type]

\* requests.Timeout: no answer within self.timeout seconds
TimedOut == TransportError("Timeout", "Read timed out. (read timeout=10)")

\* requests.ConnectionError: nothing listens on the port
Refused == TransportError("ConnectionError", "[Errno 111] Connection refused")

\* The response of the server for the outcome of a handler: jsonify of the
\* errors or of the body; the page of abort(404) is HTML, not JSON.
ResponseOf(out) ==
    IF out.status = 404
    THEN HttpResponse(404, FALSE, << >>, "<!doctype html><title>404 Not Found</title>")
    ELSE IF out.errors # <<>> THEN HttpResponse(out.status, TRUE, [errors |-> out.errors], "")
    ELSE HttpResponse(out.status, TRUE, out.body, "")

\* the JSON of GET /api/v1/health
Healthy == HttpResponse(200, TRUE, [status |-> "healthy"], "")

\* answers of the routes that are not part of this model: a list of several
\* errors, a JSON object without errors, and the page of an unhandled exception
OtherResponses ==
    {HttpResponse(400, TRUE, [errors |-> <<"Insufficient stock", "Unknown retailer">>], ""),
     HttpResponse(401, TRUE, [message |-> "Invalid credentials"], ""),
     HttpResponse(500, FALSE, << >>, "<!doctype html><title>500 Internal Server Error</title>")}

RECURSIVE Join(_, _)
\* sep.join(texts)
Join(texts, sep) ==
    IF texts = <<>> THEN ""
    ELSE IF Len(texts) = 1 THEN texts[1]
    ELSE texts[1] \o sep \o Join(Tail(texts), sep)

\* str(data) of a JSON object of one string member
DictStr(data) ==
    LET key == CHOOSE f \in DOMAIN data : TRUE
    IN  "{'" \o key \o "': '" \o data[key] \o "'}"

\* the call returned the pair (data, status_code)
Returned(data, status_code) ==
    [kind |-> "return", data |-> data, status_code |-> status_code,
     type |-> "tuple", prefix |-> "", message |-> ""]

\* the call raised StockaDoodleAPIError(f"{prefix}: {detail}")
Raised(prefix, detail) ==
    [kind |-> "raise", data |-> << >>, status_code |-> 0,
     type |-> "StockaDoodleAPIError", prefix |-> prefix,
     message |-> prefix \o ": " \o detail]

\* a status of exactly 400 is not taken for an error
_request_above_400(transport) ==
    IF transport.kind = "exception" THEN Raised("Connection failed", transport.text)
    ELSE IF transport.status_code > 400
    THEN Raised("API Error",
                Join(IF transport.is_json /\ "errors" \in DOMAIN transport.data
                     THEN transport.data["errors"]
                     ELSE IF transport.is_json THEN <<DictStr(transport.data)>>
                     ELSE <<transport.text>>, ", "))
    ELSE Returned(IF transport.is_json THEN transport.data ELSE transport.text,
                  transport.status_code)

\* StockaDoodleAPI._request, from the outcome of requests.request on
_request(transport) ==
    IF transport.kind = "exception" THEN Raised("Connection failed", transport.text)
    ELSE LET data == IF transport.is_json THEN transport.data ELSE transport.text
             error_msg == IF transport.is_json
                          THEN (IF "errors" \in DOMAIN data THEN data["errors"]
                                ELSE <<DictStr(data)>>)
                          ELSE <<data>>
         IN  IF transport.status_code >= 400
             THEN Raised("API Error", Join(error_msg, ", "))
             ELSE Returned(data, transport.status_code)

NoCall == [transport |-> TransportError("none", ""), result |-> Returned(<< >>, 0)]

----------------------------------------------------------------------------
\* routes/metrics.py

\* A float is [k |-> "float", s, i]: i is the value in hundredths when s is
\* empty; s = "nan" is NaN, s = "inf" an infinity of the sign of i.
Float(hundredths) == [k |-> "float", s |-> <<>>, i |-> hundredths]

NaN == [k |-> "float", s |-> <<"n", "a", "n">>, i |-> 0]

Infinity(sign) == [k |-> "float", s |-> <<"i", "n", "f">>, i |-> sign]

\* a JSON array
List == [k |-> "list", s |-> <<>>, i |-> 0]

RECURSIVE Strip(_)
\* text.strip() of blanks
Strip(chars) ==
    IF chars # <<>> /\ chars[1] = " " THEN Strip(Tail(chars))
    ELSE IF chars # <<>> /\ chars[Len(chars)] = " "
    THEN Strip(SubSeq(chars, 1, Len(chars) - 1))
    ELSE chars

Unsigned(chars) == IF chars # <<>> /\ chars[1] \in {"-", "+"} THEN Tail(chars) ELSE chars

SignOf(chars) == IF chars # <<>> /\ chars[1] = "-" THEN 0 - 1 ELSE 1

\* digits, digits.digits, digits. or .digits, with at most two decimals
IsDecimalLiteral(chars) ==
    LET parts == SplitOn(chars, ".")
    IN  /\ Len(parts) \in {1, 2}
        /\ \A j \in 1..Len(parts) : parts[j] = <<>> \/ AllDigits(parts[j])
        /\ \E j \in 1..Len(parts) : parts[j] # <<>>
        /\ Len(parts) = 2 => Len(parts[2]) <= 2

HundredthsOf(chars) ==
    LET parts == SplitOn(chars, ".")
        decimals == IF Len(parts) = 2 THEN parts[2] ELSE <<>>
    IN  100 * DecimalValue(parts[1])
            + (IF Len(decimals) = 1 THEN 10 * DecimalValue(decimals)
               ELSE DecimalValue(decimals))

\* float(text) of a text without exponent
FloatOfText(chars) ==
    LET text == Strip(chars)
        body == Lower(Unsigned(text))
    IN  IF body = <<"n", "a", "n">> THEN [ok |-> TRUE, value |-> NaN]
        ELSE IF body \in {<<"i", "n", "f">>, <<"i", "n", "f", "i", "n", "i", "t", "y">>}
        THEN [ok |-> TRUE, value |-> Infinity(SignOf(text))]
        ELSE IF IsDecimalLiteral(Unsigned(text))
        THEN [ok |-> TRUE, value |-> Float(SignOf(text) * HundredthsOf(Unsigned(text)))]
        ELSE [ok |-> FALSE, value |-> Null]

\* float(value): ok is FALSE where it raises TypeError or ValueError
float_(value) ==
    CASE value.k = "int" -> [ok |-> TRUE, value |-> Float(100 * value.i)]
      [] value.k = "float" -> [ok |-> TRUE, value |-> value]
      [] value.k = "str" -> FloatOfText(value.s)
      [] OTHER -> [ok |-> FALSE, value |-> Null]

\* f < 0: false for NaN
Negative(f) == IF f.s = <<"n", "a", "n">> THEN FALSE ELSE f.i < 0

\* the rows of retailer_metrics the server starts with, no call made yet
InitialSales ==
    [metrics |-> (1 :> [daily_quota |-> Float(10000), current_streak |-> 2, total_sales |-> 5])
                     @@ (2 :> [daily_quota |-> Float(5000), current_streak |-> 3,
                               total_sales |-> 1]),
     quota_calls |-> <<>>]

\* the answer of a metrics handler and the state it leaves
MetricsOutcome(status, errors, sl, lg, body) ==
    [status |-> status, errors |-> errors, sales |-> sl, log |-> lg, body |-> body]

\* RetailerMetrics.to_dict
metrics_to_dict(user_id, row) ==
    [retailer_id |-> user_id, daily_quota |-> row.daily_quota,
     current_streak |-> row.current_streak, total_sales |-> row.total_sales]

\* GET /retailer/<user_id>
get_retailer_metrics(user_id) ==
    IF user_id \notin DOMAIN sales.metrics
    THEN MetricsOutcome(404, <<"Retailer metrics not found">>, sales, log, NoBody)
    ELSE MetricsOutcome(200, <<>>, sales, log, metrics_to_dict(user_id, sales.metrics[user_id]))

\* the retailer rows ahead of the row of user_id in the ranking
Ahead(rows, user_id) ==
    {r \in DOMAIN rows :
        \/ rows[r].current_streak > rows[user_id].current_streak
        \/ rows[r].current_streak = rows[user_id].current_streak /\ r < user_id}

\* SalesManager.get_leaderboard(limit): the first limit retailers by streak
SalesManager_get_leaderboard(limit) ==
    LET rows == sales.metrics
        count == IF limit < Cardinality(DOMAIN rows) THEN limit ELSE Cardinality(DOMAIN rows)
    IN  [rank \in 1..count |->
            LET user_id == CHOOSE r \in DOMAIN rows :
                               Cardinality(Ahead(rows, r)) = rank - 1
            IN  metrics_to_dict(user_id, rows[user_id])]

SortKeys ==
    {Str(<<"d", "a", "i", "l", "y", "_", "q", "u", "o", "t", "a", "_", "u", "s", "d">>),
     Str(<<"c", "u", "r", "r", "e", "n", "t", "_", "s", "t", "r", "e", "a", "k">>),
     Str(<<"t", "o", "t", "a", "l", "_", "s", "a", "l", "e", "s">>)}

CurrentStreak == Str(<<"c", "u", "r", "r", "e", "n", "t", "_", "s", "t", "r", "e", "a", "k">>)

\* request.args.get('limit', 10, type=int)
LimitOf(args) ==
    IF "limit" \in DOMAIN args /\ IsIntLiteral(args["limit"].s)
    THEN IntOfLiteral(args["limit"].s) ELSE 10

\* the ranking ordered by the column the request names
get_leaderboard_ordered(args) ==
    LET asked == IF "sort_by" \in DOMAIN args THEN args["sort_by"] ELSE CurrentStreak
        sort_by == IF asked \in SortKeys THEN asked ELSE CurrentStreak
        ranked == SalesManager_get_leaderboard(LimitOf(args))
        leaderboard == IF sort_by = CurrentStreak THEN ranked
                       ELSE [j \in 1..Len(ranked) |-> ranked[Len(ranked) + 1 - j]]
    IN  MetricsOutcome(200, <<>>, sales, log,
                       [leaderboard |-> leaderboard, sort_by |-> sort_by,
                        total_retailers |-> Len(leaderboard)])

\* GET /retailer/leaderboard
get_leaderboard(args) ==
    LET asked == IF "sort_by" \in DOMAIN args THEN args["sort_by"] ELSE CurrentStreak
        sort_by == IF asked \in SortKeys THEN asked ELSE CurrentStreak
        leaderboard == SalesManager_get_leaderboard(LimitOf(args))
    IN  MetricsOutcome(200, <<>>, sales, log,
                       [leaderboard |-> leaderboard, sort_by |-> sort_by,
                        total_retailers |-> Len(leaderboard)])

\* SalesManager.update_retailer_quota(user_id, daily_quota): the call is
\* recorded; it raises for a user without metrics, else stores the quota
SalesManager_update_retailer_quota(user_id, daily_quota) ==
    LET called == Append(sales.quota_calls, [user_id |-> user_id, daily_quota |-> daily_quota])
    IN  IF user_id \notin DOMAIN sales.metrics
        THEN [raised |-> TRUE, sales |-> [sales EXCEPT !.quota_calls = called]]
        ELSE [raised |-> FALSE,
              sales |-> [metrics |-> [sales.metrics EXCEPT ![user_id].daily_quota = daily_quota],
                         quota_calls |-> called]]

\* PATCH /retailer/<user_id>/quota
update_retailer_quota(user_id, req) ==
    LET data == Json(req)
        daily_quota == Get(data, "daily_quota")
        converted == float_(daily_quota)
    IN  IF daily_quota = Null
        THEN MetricsOutcome(400, <<"daily_quota is required">>, sales, log, NoBody)
        ELSE IF ~converted.ok
        THEN MetricsOutcome(400, <<"daily_quota must be a number">>, sales, log, NoBody)
        ELSE IF Negative(converted.value)
        THEN MetricsOutcome(400, <<"daily_quota must be non-negative">>, sales, log, NoBody)
        ELSE LET done == SalesManager_update_retailer_quota(user_id, converted.value)
             IN  IF done.raised
                 THEN MetricsOutcome(400, <<"Retailer metrics not found">>, done.sales, log,
                                     NoBody)
                 ELSE MetricsOutcome(200, <<>>, done.sales,
                                     log_api_activity(log, "PATCH", "retailer_metrics",
                                                      Get(data, "updated_by"),
                                                      [text |-> "Updated quota for retailer",
                                                       names |-> <<user_id>>,
                                                       changes |-> <<converted.value>>]),
                                     [message |-> "Quota updated successfully",
                                      metrics |-> metrics_to_dict(user_id,
                                                                  done.sales.metrics[user_id])])

\* POST /retailer/<user_id>/reset-streak
reset_retailer_streak(user_id, req) ==
    IF user_id \notin DOMAIN sales.metrics
    THEN MetricsOutcome(404, <<"Retailer metrics not found">>, sales, log, NoBody)
    ELSE LET old_streak == sales.metrics[user_id].current_streak
         IN  MetricsOutcome(200, <<>>,
                            [sales EXCEPT !.metrics[user_id].current_streak = 0],
                            log_api_activity(log, "POST", "retailer_metrics",
                                             Get(Json(req), "admin_id"),
                                             [text |-> "Reset streak for retailer",
                                              names |-> <<user_id>>,
                                              changes |-> <<old_streak>>]),
                            [message |-> "Streak reset successfully",
                             previous_streak |-> old_streak, current_streak |-> 0])

----------------------------------------------------------------------------
\* desktop_app/ui/mfa_window.py

\* no dialog on screen
NoWindow ==
    [state |-> "none", text |-> <<>>, emitted |-> <<>>, sent |-> <<>>, dialog |-> "none"]

\* MFAWindow.__init__: the dialog is shown with an empty code_input
OpenWindow == [NoWindow EXCEPT !.state = "open"]

\* the user of a verified login
MfaUser == "alice"

\* answers of POST users/auth/mfa/verify: the code is accepted and the user
\* returned, a 200 without a user, the code is refused, no answer in time
MfaResponses ==
    {HttpResponse(200, TRUE, [message |-> "MFA verified", user |-> MfaUser], ""),
     HttpResponse(200, TRUE, [message |-> "MFA verified"], ""),
     HttpResponse(401, TRUE, [errors |-> <<"Invalid or expired MFA code">>], ""),
     TimedOut}

\* ''.join(filter(str.isdigit, text))
OnlyDigits(chars) == SelectSeq(chars, IsDigit)

\* format_code_input: the text code_input holds after textChanged(text)
format_code_input(chars) == IF AllDigits(chars) THEN chars ELSE OnlyDigits(chars)

\* the except branch and the else branch of verify_code: an error box, the
\* input cleared
VerificationFailed(window, code) ==
    [window EXCEPT !.sent = Append(window.sent, code), !.dialog = "critical", !.text = <<>>]

\* MFAWindow.verify_code, with the outcome of the HTTP request it may make.
\* verify_mfa_code returns what _request returns, the tuple (data,
\* status_code); result.get raises AttributeError on it, which the except
\* branch catches like an error of the API.
verify_code(window, transport) ==
    LET code == Strip(window.text)
        result == _request(transport)
    IN  IF Len(code) # 6 \/ ~AllDigits(code)
        THEN [window |-> [window EXCEPT !.dialog = "warning"], called |-> FALSE]
        ELSE IF result.kind = "raise"
        THEN [window |-> VerificationFailed(window, code), called |-> TRUE]
        ELSE IF result.type # "dict"
        THEN [window |-> VerificationFailed(window, code), called |-> TRUE]
        ELSE IF "user" \in DOMAIN result.data
        THEN [window |-> [window EXCEPT !.sent = Append(window.sent, code),
                                        !.dialog = "information",
                                        !.emitted = Append(window.emitted,
                                                           result.data["user"]),
                                        !.state = "accepted"],
              called |-> TRUE]
        ELSE [window |-> VerificationFailed(window, code), called |-> TRUE]

----------------------------------------------------------------------------
\* The requests the model sends.

General == <<"G", "e", "n", "e", "r", "a", "l">>

ValidDateText == <<"2", "0", "2", "5", "-", "0", "1", "-", "1", "5">>

InvalidDateText == <<"2", "0", "2", "5", "-", "1", "3", "-", "4", "0">>

\* "Qg==" is the base64 of b"B"; "Qg=" ends inside a quad and does not decode
ValidImageText == <<"Q", "g", "=", "=">>

InvalidImageText == <<"Q", "g", "=">>

\* the fields a category handler reads and the values the model sends
CategoryValues ==
    [name |-> {Str(<<>>), Str(General), Str(<<"a">>)},
     description |-> {Str(<<"d">>)},
     image_base64 |-> {Str(ValidImageText), Str(InvalidImageText)},
     user_id |-> {Int_(1)}]

\* the fields a product handler reads and the values the model sends
ProductValues ==
    [name |-> {Str(<<>>), Str(<<"a">>), Str(<<"b">>)},
     brand |-> {Str(<<"x">>)},
     price |-> {Str(<<"x">>), Str(<<"7">>), Int_(3)},
     category_id |-> {Int_(0), Str(<<"0">>), Int_(1), Int_(2), Str(<<"x">>)},
     stock_level |-> {Int_(5), Str(<<"x">>)},
     min_stock_level |-> {Int_(3)},
     expiration_date |-> {Str(ValidDateText), Str(InvalidDateText)},
     image_base64 |-> {Str(ValidImageText), Str(InvalidImageText)}]

\* the field delete_category reads
DeleteValues == [user_id |-> {Int_(1)}]

\* the bodies of at most n of the keys of values, each with one of its values
Bodies(values, n) ==
    UNION {{d \in [ks -> UNION {values[key] : key \in ks}] :
                \A key \in ks : d[key] \in values[key]} :
             ks \in {s \in SUBSET DOMAIN values : Cardinality(s) <= n}}

\* the part "image" of a multipart body: a chosen file, or none chosen
Files ==
    {[present |-> TRUE, filename |-> <<"p">>, content |-> Bytes(256 + 67)],
     [present |-> TRUE, filename |-> <<>>, content |-> Bytes(1)]}

IsStrBody(d) == \A key \in DOMAIN d : d[key].k = "str"

\* JSON bodies, and multipart bodies (all of whose fields are strings) with
\* an image part; the image part counts as one of the MaxKeys fields.
Requests(values) ==
    {[is_form |-> FALSE, data |-> d, file |-> NoFile] : d \in Bodies(values, MaxKeys)}
        \cup {[is_form |-> TRUE, data |-> d, file |-> f] :
                d \in {b \in Bodies(values, MaxKeys - 1) : IsStrBody(b)}, f \in Files}

\* a JSON body without a file part
JsonOnly(req) == ~req.is_form /\ ~req.file.present

CategoryRequests == Requests(CategoryValues)

ProductRequests == Requests(ProductValues)

\* DELETE carries a JSON body or none
DeleteRequests ==
    {[is_form |-> FALSE, data |-> d, file |-> NoFile] : d \in Bodies(DeleteValues, MaxKeys)}

\* the query strings of the GET requests
CategoryArgValues == [include_image |-> {Str(<<"t", "r", "u", "e">>), Str(<<"1">>)}]

ProductArgValues ==
    [include_image |-> {Str(<<"t", "r", "u", "e">>), Str(<<"1">>)},
     search |-> {Str(<<"A">>)},
     category_id |-> {Str(<<"1">>), Str(<<"x">>)}]

CategoryArgs == Bodies(CategoryArgValues, MaxKeys)

ProductArgs == Bodies(ProductArgValues, MaxKeys)

NoRequest == [is_form |-> FALSE, data |-> << >>, file |-> NoFile]

\* the ids a request names: the rows of the table and one id it does not hold
TargetIds(table) == 1..NewId(table)

----------------------------------------------------------------------------
\* The state machine: one request is served at a time, each in one step.

\* create_app: the tables are created and the category "General" is seeded
Init ==
    /\ categories = (1 :> [name |-> Str(General), description |-> Null, category_image |-> Null])
    /\ products = << >>
    /\ log = << >>
    /\ last = [op |-> "none", id |-> 0, status |-> 0, errors |-> <<>>, pending |-> {}]
    /\ steps = 0
    /\ workers = << >>
    /\ client = NoCall
    /\ refused = {}
    /\ sales = InitialSales
    /\ mfa = NoWindow

\* the server takes one more request
CanServe == steps < MaxSteps

\* The categories whose deletion has been refused: a 400 of delete_category
\* adds the id; a created category that takes a free id starts unrefused.
Refusals(op, id, out) ==
    IF op = "delete_category" /\ out.status = 400 THEN refused \cup {id}
    ELSE IF op = "create_category" /\ out.status = 201 THEN refused \ {NewId(categories)}
    ELSE refused

\* The handler op served the request req for the row id with the outcome out.
Serve(op, id, req, out) ==
    /\ categories' = out.categories
    /\ products' = out.products
    /\ log' = out.log
    /\ last' = [op |-> op, id |-> id, status |-> out.status, errors |-> out.errors,
                pending |-> out.pending]
    /\ steps' = steps + 1
    /\ refused' = Refusals(op, id, out)
    /\ UNCHANGED <<workers, client, sales, mfa>>

CreateCategory ==
    /\ CanServe
    /\ \E req \in CategoryRequests :
         Serve("create_category", 0, req, create_category(req))

ReplaceCategory ==
    /\ CanServe
    /\ \E cat_id \in TargetIds(categories), req \in CategoryRequests :
         Serve("replace_category", cat_id, req, replace_category(cat_id, req))

UpdateCategory ==
    /\ CanServe
    /\ \E cat_id \in TargetIds(categories), req \in CategoryRequests :
         Serve("update_category", cat_id, req, update_category(cat_id, req))

DeleteCategory ==
    /\ CanServe
    /\ \E cat_id \in TargetIds(categories), req \in DeleteRequests :
         Serve("delete_category", cat_id, req, delete_category(cat_id, req))

CreateProduct ==
    /\ CanServe
    /\ \E req \in ProductRequests :
         Serve("create_product", 0, req, create_product(req))

ReplaceProduct ==
    /\ CanServe
    /\ \E id \in TargetIds(products), req \in ProductRequests :
         Serve("replace_product", id, req, replace_product(id, req))

PatchProduct ==
    /\ CanServe
    /\ \E id \in TargetIds(products), req \in ProductRequests :
         Serve("patch_product", id, req, patch_product(id, req))

DeleteProduct ==
    /\ CanServe
    /\ \E id \in TargetIds(products) :
         Serve("delete_product", id, NoRequest, delete_product(id))

ListCategories ==
    /\ CanServe
    /\ \E args \in CategoryArgs :
         Serve("list_categories", 0, NoRequest, list_categories(args))

GetCategory ==
    /\ CanServe
    /\ \E cat_id \in TargetIds(categories), args \in CategoryArgs :
         Serve("get_category", cat_id, NoRequest, get_category(cat_id, args))

ListProduct ==
    /\ CanServe
    /\ \E args \in ProductArgs :
         Serve("list_product", 0, NoRequest, list_product(args))

GetProduct ==
    /\ CanServe
    /\ \E id \in TargetIds(products), args \in CategoryArgs :
         Serve("get_product", id, NoRequest, get_product(id, args))

Next ==
    \/ CreateCategory
    \/ ReplaceCategory
    \/ UpdateCategory
    \/ DeleteCategory
    \/ CreateProduct
    \/ ReplaceProduct
    \/ PatchProduct
    \/ DeleteProduct
    \/ ListCategories
    \/ GetCategory
    \/ ListProduct
    \/ GetProduct

Spec == Init /\ [][Next]_vars

----------------------------------------------------------------------------
\* Products that come to reference a category and leave it again: complete
\* product bodies (name, price, category_id) and the category_id a PUT or a
\* PATCH moves a product to, over behaviours of MaxRefSteps requests.

Body(data) == [is_form |-> FALSE, data |-> data, file |-> NoFile]

RefCategoryRequests == {Body([name |-> Str(<<c>>)]) : c \in {"a", "b"}}

\* category_id: a category, another one, JSON null
RefCategoryIds == {Int_(1), Int_(2), Null}

RefProductRequests ==
    {Body([name |-> Str(<<"a">>), price |-> Int_(3)])}
        \cup {Body([name |-> Str(<<"a">>), price |-> Int_(3), category_id |-> c]) :
                 c \in RefCategoryIds}

RefPatchRequests ==
    {Body([category_id |-> c]) : c \in RefCategoryIds} \cup {Body([name |-> Str(<<"b">>)])}

CanRef == steps < MaxRefSteps

RefCreateCategory ==
    /\ CanRef
    /\ \E req \in RefCategoryRequests :
         Serve("create_category", 0, req, create_category(req))

RefDeleteCategory ==
    /\ CanRef
    /\ \E cat_id \in TargetIds(categories) :
         Serve("delete_category", cat_id, NoRequest, delete_category(cat_id, NoRequest))

RefCreateProduct ==
    /\ CanRef
    /\ \E req \in RefProductRequests :
         Serve("create_product", 0, req, create_product(req))

RefReplaceProduct ==
    /\ CanRef
    /\ \E id \in DOMAIN products, req \in RefProductRequests :
         Serve("replace_product", id, req, replace_product(id, req))

RefPatchProduct ==
    /\ CanRef
    /\ \E id \in DOMAIN products, req \in RefPatchRequests :
         Serve("patch_product", id, req, patch_product(id, req))

RefDeleteProduct ==
    /\ CanRef
    /\ \E id \in DOMAIN products :
         Serve("delete_product", id, NoRequest, delete_product(id))

NextRefs ==
    \/ RefCreateCategory
    \/ RefDeleteCategory
    \/ RefCreateProduct
    \/ RefReplaceProduct
    \/ RefPatchProduct
    \/ RefDeleteProduct

SpecRefs == Init /\ [][NextRefs]_vars

----------------------------------------------------------------------------
\* The calls of the API client on the category endpoints and the health
\* endpoint, each served by the handlers above or failing in the transport.

\* the bodies the client sends: JSON only
ClientRequests == {r \in CategoryRequests : JsonOnly(r)}

\* create_category(name, description, image_path, user_id): the body always
\* carries name, description and user_id, None when not given
CreateCategoryBodies ==
    {[is_form |-> FALSE, file |-> NoFile,
      data |-> [name |-> name, description |-> description, user_id |-> user_id]] :
        name \in CategoryValues.name,
        description \in CategoryValues.description \cup {Null},
        user_id \in CategoryValues.user_id \cup {Null}}

\* delete_category(category_id, user_id): json = {'user_id': user_id}
DeleteCategoryBodies ==
    {[is_form |-> FALSE, file |-> NoFile, data |-> [user_id |-> user_id]] :
        user_id \in CategoryValues.user_id \cup {Null}}

\* params = {'include_image': 'true' if include_image else 'false'}
ClientArgs ==
    {[include_image |-> Str(<<"t", "r", "u", "e">>)],
     [include_image |-> Str(<<"f", "a", "l", "s", "e">>)]}

\* the client makes one more call
CanCall == steps < MaxCalls

\* The server served the call with the outcome out and the client got the
\* answer transport.
Called(op, id, out, transport) ==
    /\ categories' = out.categories
    /\ products' = out.products
    /\ log' = out.log
    /\ last' = [op |-> op, id |-> id, status |-> out.status, errors |-> out.errors,
                pending |-> out.pending]
    /\ steps' = steps + 1
    /\ client' = [transport |-> transport, result |-> _request(transport)]
    /\ refused' = Refusals(op, id, out)
    /\ UNCHANGED <<workers, sales, mfa>>

\* the call did not reach a handler of the model
NotServed(transport) ==
    /\ steps' = steps + 1
    /\ client' = [transport |-> transport, result |-> _request(transport)]
    /\ UNCHANGED <<categories, products, log, last, workers, refused, sales, mfa>>

ClientCreateCategory ==
    /\ CanCall
    /\ \E req \in CreateCategoryBodies : \E out \in {create_category(req)} :
         Called("create_category", 0, out, ResponseOf(out))

ClientReplaceCategory ==
    /\ CanCall
    /\ \E cat_id \in TargetIds(categories), req \in ClientRequests :
         \E out \in {replace_category(cat_id, req)} :
            Called("replace_category", cat_id, out, ResponseOf(out))

ClientUpdateCategory ==
    /\ CanCall
    /\ \E cat_id \in TargetIds(categories), req \in ClientRequests :
         \E out \in {update_category(cat_id, req)} :
            Called("update_category", cat_id, out, ResponseOf(out))

ClientDeleteCategory ==
    /\ CanCall
    /\ \E cat_id \in TargetIds(categories), req \in DeleteCategoryBodies :
         \E out \in {delete_category(cat_id, req)} :
            Called("delete_category", cat_id, out, ResponseOf(out))

ClientGetCategory ==
    /\ CanCall
    /\ \E cat_id \in TargetIds(categories), args \in ClientArgs :
         \E out \in {get_category(cat_id, args)} :
            Called("get_category", cat_id, out, ResponseOf(out))

ClientGetCategories ==
    /\ CanCall
    /\ \E args \in ClientArgs : \E out \in {list_categories(args)} :
         Called("list_categories", 0, out, ResponseOf(out))

ClientHealthCheck ==
    /\ CanCall
    /\ NotServed(Healthy)

\* a call on a route outside this model
ClientOtherRoute ==
    /\ CanCall
    /\ \E response \in OtherResponses : NotServed(response)

\* No answer came within the timeout: the server may have served the call
\* all the same (a create_category here), or not at all.
ClientTimeout ==
    /\ CanCall
    /\ \/ NotServed(TimedOut)
       \/ \E req \in CreateCategoryBodies : \E out \in {create_category(req)} :
            Called("create_category", 0, out, TimedOut)

\* the connection was refused: no handler ran
ClientRefused ==
    /\ CanCall
    /\ NotServed(Refused)

NextClient ==
    \/ ClientCreateCategory
    \/ ClientReplaceCategory
    \/ ClientUpdateCategory
    \/ ClientDeleteCategory
    \/ ClientGetCategory
    \/ ClientGetCategories
    \/ ClientHealthCheck
    \/ ClientOtherRoute
    \/ ClientTimeout
    \/ ClientRefused

SpecClient == Init /\ [][NextClient]_vars

----------------------------------------------------------------------------
\* Concurrent category requests. A handler runs its checks against the
\* committed rows (RaceCheck) and commits later (RaceCommit); the steps of
\* different requests interleave. The index of categories.name is unique:
\* a commit that would store a name twice raises IntegrityError, which no
\* handler catches, so the request ends in a 500 and its changes are lost.

Workers == 1..NumWorkers

NoRow == [name |-> Null, description |-> Null, category_image |-> Null]

Idle ==
    [pc |-> "idle", op |-> "none", id |-> 0, loaded |-> NoRow, row |-> NoRow,
     logged |-> <<>>, status |-> 0]

\* the JSON bodies of the concurrent requests
RaceRequests ==
    {r \in CategoryRequests : JsonOnly(r) /\ DOMAIN r.data \subseteq {"name", "description"}}

RaceOps == {"create_category", "replace_category", "update_category"}

\* the handler op on the committed rows
CategoryHandler(op, cat_id, req) ==
    CASE op = "create_category" -> create_category(req)
      [] op = "replace_category" -> replace_category(cat_id, req)
      [] op = "update_category" -> update_category(cat_id, req)

\* The handler up to its commit: the lookups and checks are made, the row
\* object is built or assigned, nothing is written.
RaceCheck(w) ==
    /\ workers[w].pc = "idle"
    /\ \E op \in RaceOps, req \in RaceRequests :
         \E cat_id \in (IF op = "create_category" THEN {0} ELSE TargetIds(categories)) :
            \E out \in {CategoryHandler(op, cat_id, req)} :
                workers' = [workers EXCEPT ![w] =
                    IF out.status >= 400
                    THEN [Idle EXCEPT !.pc = "done", !.op = op, !.id = cat_id,
                                      !.status = out.status]
                    ELSE [pc |-> "checked", op |-> op, id |-> cat_id,
                          loaded |-> IF op = "create_category" THEN NoRow
                                     ELSE categories[cat_id],
                          row |-> IF op = "create_category"
                                  THEN out.categories[NewId(categories)]
                                  ELSE out.categories[cat_id],
                          logged |-> SubSeq(out.log, Len(log) + 1, Len(out.log)),
                          status |-> out.status]]
    /\ UNCHANGED <<categories, products, log, last, steps, client, refused, sales, mfa>>

\* UPDATE writes the columns the handler changed on the row it had loaded
Written(worker) ==
    IF worker.op = "create_category" THEN worker.row
    ELSE [f \in DOMAIN worker.row |->
            IF worker.row[f] # worker.loaded[f] THEN worker.row[f]
            ELSE categories[worker.id][f]]

\* the column without its unique index
UniqueIndexAllowsAny(id, row) == TRUE

\* name = db.Column(db.String(100), unique=True): no other row holds the name
UniqueIndexAllows(id, row) ==
    \A c \in DOMAIN categories \ {id} : categories[c].name # row.name

\* db.session.commit() and what follows it
RaceCommit(w) ==
    /\ workers[w].pc = "checked"
    /\ LET worker == workers[w]
           id == IF worker.op = "create_category" THEN NewId(categories) ELSE worker.id
           row == Written(worker)
       IN  IF UniqueIndexAllows(id, row)
           THEN /\ categories' = Put(categories, id, row)
                /\ log' = log \o worker.logged
                /\ workers' = [workers EXCEPT ![w].pc = "done", ![w].id = id]
                /\ last' = [op |-> worker.op, id |-> id, status |-> worker.status,
                            errors |-> <<>>, pending |-> {}]
           ELSE /\ UNCHANGED <<categories, log>>
                /\ workers' = [workers EXCEPT ![w].pc = "done", ![w].status = 500]
                /\ last' = [op |-> worker.op, id |-> id, status |-> 500,
                            errors |-> <<"IntegrityError">>, pending |-> {}]
    /\ UNCHANGED <<products, steps, client, refused, sales, mfa>>

InitRace ==
    /\ categories = (1 :> [name |-> Str(General), description |-> Null, category_image |-> Null])
    /\ products = << >>
    /\ log = << >>
    /\ last = [op |-> "none", id |-> 0, status |-> 0, errors |-> <<>>, pending |-> {}]
    /\ steps = 0
    /\ workers = [w \in Workers |-> Idle]
    /\ client = NoCall
    /\ refused = {}
    /\ sales = InitialSales
    /\ mfa = NoWindow

NextRace ==
    \/ \E w \in Workers : RaceCheck(w)
    \/ \E w \in Workers : RaceCommit(w)

SpecRace == InitRace /\ [][NextRace]_vars

----------------------------------------------------------------------------
\* The retailer metrics routes, served one request at a time.

\* the retailers with metrics and one user without
RetailerIds == 1..3

\* values of daily_quota: numbers, texts float() reads, texts and a value it
\* does not, JSON null
QuotaValues ==
    {Int_(5), Int_(0), Int_(0 - 1), Str(<<"7", ".", "5">>), Str(<<"-", "1">>),
     Str(<<"x">>), Str(<<>>), Str(<<"n", "a", "n">>), List, Null}

QuotaRequests ==
    {Body(<< >>), Body([updated_by |-> Int_(1)])}
        \cup {Body([daily_quota |-> v]) : v \in QuotaValues}
        \cup {Body([daily_quota |-> v, updated_by |-> Int_(1)]) : v \in QuotaValues}

\* the query strings of GET /retailer/leaderboard
LeaderboardArgValues ==
    [sort_by |-> SortKeys \cup {Str(<<"n", "a", "m", "e">>)},
     limit |-> {Str(<<"1">>), Str(<<"x">>)}]

LeaderboardArgs == Bodies(LeaderboardArgValues, MaxKeys)

ResetRequests == {Body(<< >>), Body([admin_id |-> Int_(1)])}

\* The metrics handler op served a request for the retailer user_id.
ServeMetrics(op, user_id, out) ==
    /\ sales' = out.sales
    /\ log' = out.log
    /\ last' = [op |-> op, id |-> user_id, status |-> out.status, errors |-> out.errors,
                pending |-> {}]
    /\ steps' = steps + 1
    /\ UNCHANGED <<categories, products, workers, client, refused, mfa>>

GetRetailerMetrics ==
    /\ CanServe
    /\ \E user_id \in RetailerIds :
         ServeMetrics("get_retailer_metrics", user_id, get_retailer_metrics(user_id))

GetLeaderboard ==
    /\ CanServe
    /\ \E args \in LeaderboardArgs :
         ServeMetrics("get_leaderboard", 0, get_leaderboard(args))

UpdateRetailerQuota ==
    /\ CanServe
    /\ \E user_id \in RetailerIds, req \in QuotaRequests :
         ServeMetrics("update_retailer_quota", user_id, update_retailer_quota(user_id, req))

ResetRetailerStreak ==
    /\ CanServe
    /\ \E user_id \in RetailerIds, req \in ResetRequests :
         ServeMetrics("reset_retailer_streak", user_id, reset_retailer_streak(user_id, req))

NextMetrics ==
    \/ GetRetailerMetrics
    \/ GetLeaderboard
    \/ UpdateRetailerQuota
    \/ ResetRetailerStreak

SpecMetrics == Init /\ [][NextMetrics]_vars

----------------------------------------------------------------------------
\* The MFA dialog: keys typed into code_input, the Verify and Cancel buttons.

\* the keys the user presses
MfaKeys == {"1", "a"}

\* what verify_code did to the dialog and, when it called the API, to the client
Verified(transport) ==
    LET done == verify_code(mfa, transport)
    IN  /\ done.called => Len(mfa.sent) < MaxAttempts
        /\ mfa' = done.window
        /\ client' = IF done.called
                     THEN [transport |-> transport, result |-> _request(transport)]
                     ELSE client

\* A key is typed at the end of code_input (setMaxLength(6)): textChanged
\* runs format_code_input, then check_auto_submit.
MfaType ==
    /\ mfa.state = "open"
    /\ Len(mfa.text) < 6
    /\ \E key \in MfaKeys :
         LET text == format_code_input(Append(mfa.text, key))
         IN  IF Len(text) = 6
             THEN \E transport \in MfaResponses :
                     LET done == verify_code([mfa EXCEPT !.text = text], transport)
                     IN  /\ Len(mfa.sent) < MaxAttempts
                         /\ mfa' = done.window
                         /\ client' = [transport |-> transport,
                                       result |-> _request(transport)]
             ELSE mfa' = [mfa EXCEPT !.text = text] /\ UNCHANGED client
    /\ UNCHANGED <<categories, products, log, last, steps, workers, refused, sales>>

\* the last character is deleted
MfaBackspace ==
    /\ mfa.state = "open"
    /\ mfa.text # <<>>
    /\ mfa' = [mfa EXCEPT !.text = format_code_input(SubSeq(mfa.text, 1, Len(mfa.text) - 1))]
    /\ UNCHANGED <<categories, products, log, last, steps, workers, client, refused, sales>>

\* verify_btn.clicked
MfaClickVerify ==
    /\ mfa.state = "open"
    /\ \E transport \in MfaResponses : Verified(transport)
    /\ UNCHANGED <<categories, products, log, last, steps, workers, refused, sales>>

\* cancel_btn.clicked: reject()
MfaCancel ==
    /\ mfa.state = "open"
    /\ mfa' = [mfa EXCEPT !.state = "rejected"]
    /\ UNCHANGED <<categories, products, log, last, steps, workers, client, refused, sales>>

InitMfa ==
    /\ categories = (1 :> [name |-> Str(General), description |-> Null, category_image |-> Null])
    /\ products = << >>
    /\ log = << >>
    /\ last = [op |-> "none", id |-> 0, status |-> 0, errors |-> <<>>, pending |-> {}]
    /\ steps = 0
    /\ workers = << >>
    /\ client = NoCall
    /\ refused = {}
    /\ sales = InitialSales
    /\ mfa = OpenWindow

NextMfa ==
    \/ MfaType
    \/ MfaBackspace
    \/ MfaClickVerify
    \/ MfaCancel

SpecMfa == InitMfa /\ [][NextMfa]_vars

----------------------------------------------------------------------------
\* Properties of the handlers served one at a time (Spec).

MutatingOps ==
    {"create_category", "replace_category", "update_category", "delete_category",
     "create_product", "replace_product", "patch_product", "delete_product"}

\* C1: after any sequence of category create, replace, update and delete
\* requests served one at a time, no two stored categories have the same name.
C1_UniqueCategoryNames ==
    \A c1, c2 \in DOMAIN categories : c1 # c2 => categories[c1].name # categories[c2].name

\* a second category exists and a category was just given a name by PUT or PATCH
C1_Witness ==
    /\ Cardinality(DOMAIN categories) >= 2
    /\ last.op \in {"replace_category", "update_category"}
    /\ last.status = 200
    /\ categories[last.id].name # Str(General)

\* C2: for every name a stored category holds, create_category with that
\* name returns 400 'Category name already exists' and adds no category.
C2_DuplicateCreateRejected ==
    \A req \in CategoryRequests :
        (\E c \in DOMAIN categories : categories[c].name = Get(req.data, "name"))
            => LET out == create_category(req)
               IN  /\ out.status = 400
                   /\ out.errors = <<"Category name already exists">>
                   /\ out.categories = categories

\* a create_category request was answered 400 for a name already held
C2_Witness ==
    /\ last.op = "create_category"
    /\ last.status = 400
    /\ last.errors = <<"Category name already exists">>

\* C3: every stored product whose category_id is set references a category
\* of the store, also after requests that supply category_id as 0 or "0".
C3_CategoryIdResolves ==
    \A p \in DOMAIN products :
        products[p].category_id # Null => products[p].category_id.i \in DOMAIN categories

\* C4: delete_category on a category some product references returns 400
\* and leaves the category and all products; on a category no product
\* references it returns 200 and removes exactly that category.
C4_DeleteCategoryGuard ==
    \A cat_id \in DOMAIN categories, req \in DeleteRequests :
        LET out == delete_category(cat_id, req)
            referenced == \E p \in DOMAIN products : products[p].category_id = Int_(cat_id)
        IN  /\ out.products = products
            /\ referenced => out.status = 400 /\ out.categories = categories
            /\ ~referenced =>
                 /\ out.status = 200
                 /\ DOMAIN out.categories = DOMAIN categories \ {cat_id}
                 /\ \A c \in DOMAIN out.categories : out.categories[c] = categories[c]

\* a delete_category request was refused because a product references the category
C4_Witness ==
    /\ last.op = "delete_category"
    /\ last.status = 400
    /\ \E p \in DOMAIN products : products[p].category_id = Int_(last.id)

\* C5: a PUT on an existing product whose body holds only name and price
\* sets name and price and resets brand, category_id and expiration_date to
\* null, stock_level to 0 and min_stock_level to 10, whatever the row held.
C5_PutResetsOmittedFields ==
    \A id \in DOMAIN products, req \in ProductRequests :
        (JsonOnly(req) /\ DOMAIN req.data = {"name", "price"}
            /\ replace_product(id, req).status = 200)
            => replace_product(id, req).products[id] =
                   [name |-> req.data["name"],
                    brand |-> Null,
                    price |-> extract_int(req.data["price"], Null),
                    category_id |-> Null,
                    stock_level |-> Int_(0),
                    min_stock_level |-> Int_(10),
                    expiration_date |-> Null,
                    image_blob |-> products[id].image_blob]

\* the body key (or file part) that sets a field of a product row
ProductFieldKeys ==
    [name |-> {"name"}, brand |-> {"brand"}, price |-> {"price"},
     category_id |-> {"category_id"}, stock_level |-> {"stock_level"},
     min_stock_level |-> {"min_stock_level"}, expiration_date |-> {"expiration_date"},
     image_blob |-> {"image_base64", "image"}]

\* the fields of the body of a request, "image" for its file part
PartsOf(req) == DOMAIN req.data \cup (IF req.file.present THEN {"image"} ELSE {})

StockOnlyRequests ==
    {r \in ProductRequests : JsonOnly(r) /\ DOMAIN r.data = {"stock_level"}}

\* C6: a successful PATCH on a product changes only fields present in the
\* body and leaves every other field of the product, every other product
\* and every category unchanged; a body of only {stock_level: N} sets
\* stock_level to N and changes nothing else. (Stated of every PATCH the
\* server can take in the state.)
C6_PatchChangesOnlySupplied ==
    CanServe => \A id \in DOMAIN products :
        /\ \A req \in ProductRequests : \A out \in {patch_product(id, req)} :
                  out.status = 200 =>
                    /\ out.categories = categories
                    /\ DOMAIN out.products = DOMAIN products
                    /\ \A p \in DOMAIN products \ {id} : out.products[p] = products[p]
                    /\ \A f \in DOMAIN ProductFieldKeys :
                          ProductFieldKeys[f] \cap PartsOf(req) = {} =>
                              out.products[id][f] = products[id][f]
        /\ \A req \in StockOnlyRequests : \A out \in {patch_product(id, req)} :
                  /\ out.status = 200
                  /\ out.products = [products EXCEPT ![id].stock_level = req.data["stock_level"]]

\* a PATCH that set stock_level to 5 succeeded on one of two products
C6_Witness ==
    /\ last.op = "patch_product"
    /\ last.status = 200
    /\ Cardinality(DOMAIN products) >= 2
    /\ products[last.id].stock_level = Int_(5)

\* C7: every successful mutating request on a category or a product appends
\* exactly one activity log entry, with or without a user_id.
C7_OneLogEntryPerMutation ==
    [][(last'.op \in MutatingOps /\ steps' = steps + 1 /\ last'.status \in {200, 201})
          => Len(log') = Len(log) + 1]_vars

NameMissingOrEmpty(req) == "name" \notin DOMAIN req.data \/ req.data["name"] = Str(<<>>)

Unchanged(out) == out.categories = categories /\ out.products = products

\* C10: product create and replace and category create and replace answer
\* 400 and change nothing when the name is missing or empty, so no stored
\* product or category has an empty name.
C10_NameRequired ==
    /\ \A c \in DOMAIN categories : categories[c].name # Str(<<>>)
    /\ \A p \in DOMAIN products : products[p].name # Str(<<>>)
    /\ \A req \in {r \in CategoryRequests : NameMissingOrEmpty(r)} :
          /\ create_category(req).status = 400 /\ Unchanged(create_category(req))
          /\ \A c \in DOMAIN categories :
                replace_category(c, req).status = 400 /\ Unchanged(replace_category(c, req))
    /\ \A req \in {r \in ProductRequests : NameMissingOrEmpty(r)} :
          /\ create_product(req).status = 400 /\ Unchanged(create_product(req))
          /\ \A p \in DOMAIN products :
                replace_product(p, req).status = 400 /\ Unchanged(replace_product(p, req))

\* the request with the field key of its body set to value
WithField(req, key, value) ==
    [req EXCEPT !.data = [f \in DOMAIN req.data \cup {key} |->
                            IF f = key THEN value ELSE req.data[f]]]

\* the product requests that do not carry the field key and have room for it
RequestsWithout(key) ==
    {r \in ProductRequests : key \notin DOMAIN r.data /\ Cardinality(PartsOf(r)) < MaxKeys}

\* a value that is present and not empty
NonEmpty(v) == v # Null /\ v # Str(<<>>)

\* the category_id values that are not empty and name no category of the store
UnresolvableCategoryIds ==
    {v \in ProductValues.category_id :
        NonEmpty(v) /\ (extract_int(v, Null) = Null \/ extract_int(v, Null).i \notin DOMAIN categories)}

\* the response 400 'Invalid category ID' with nothing stored
RejectedCategoryId(out) ==
    out.status = 400 /\ out.errors = <<"Invalid category ID">> /\ Unchanged(out)

\* C11: a product create, replace or patch request whose category_id is
\* present and not empty, and does not coerce to an integer or names no
\* stored category, is answered 400 'Invalid category ID' and stores nothing
\* (the request being valid in its name and price).
C11_InvalidCategoryIdRejected ==
    \A v \in UnresolvableCategoryIds :
        /\ \A price \in {Str(<<"7">>), Int_(3)} :
              LET req == [is_form |-> FALSE, file |-> NoFile,
                          data |-> [name |-> Str(<<"a">>), price |-> price, category_id |-> v]]
              IN  /\ RejectedCategoryId(create_product(req))
                  /\ \A id \in DOMAIN products : RejectedCategoryId(replace_product(id, req))
        /\ \A id \in DOMAIN products :
              RejectedCategoryId(patch_product(id, [is_form |-> FALSE, file |-> NoFile,
                                                    data |-> [category_id |-> v]]))

\* the price values that are empty or do not coerce to an integer
BadPrices == {Str(<<>>), Str(<<"x">>)}

\* the response 400 with the price of every stored product as it was
RejectedKeepingPrices(out) ==
    /\ out.status = 400
    /\ DOMAIN out.products = DOMAIN products
    /\ \A p \in DOMAIN products : out.products[p].price = products[p].price

PriceError == <<"Price must be a number">>

NameAndPriceRequests ==
    {r \in ProductRequests :
        /\ DOMAIN r.data = {"name", "price"}
        /\ ~(r.file.present /\ r.file.filename # <<>>)
        /\ Truthy(r.data["name"])
        /\ r.data["price"] \in {Str(<<"7">>), Int_(3)}}

\* C13: a product create request that supplies only a name and a price
\* coercible to an integer returns 201 and stores one new product with that
\* name, the price as an integer, stock_level 0, min_stock_level 10 and
\* brand, category_id, expiration_date and image all null.
C13_CreateDefaults ==
    \A req \in NameAndPriceRequests :
        LET out == create_product(req)
            price == IF req.data["price"] = Str(<<"7">>) THEN 7 ELSE 3
        IN  /\ out.status = 201
            /\ out.categories = categories
            /\ DOMAIN out.products = DOMAIN products \cup {NewId(products)}
            /\ \A p \in DOMAIN products : out.products[p] = products[p]
            /\ out.products[NewId(products)] =
                   [name |-> req.data["name"],
                    brand |-> Null,
                    price |-> Int_(price),
                    category_id |-> Null,
                    stock_level |-> Int_(0),
                    min_stock_level |-> Int_(10),
                    expiration_date |-> Null,
                    image_blob |-> Null]

\* a create answered 201 stored a product of name "a" and price 7 with the defaults
C13_Witness ==
    /\ last.op = "create_product"
    /\ last.status = 201
    /\ \E p \in DOMAIN products :
          products[p] = [name |-> Str(<<"a">>), brand |-> Null, price |-> Int_(7),
                         category_id |-> Null, stock_level |-> Int_(0),
                         min_stock_level |-> Int_(10), expiration_date |-> Null,
                         image_blob |-> Null]

\* the two outcomes answer alike and store the same products
SameStored(a, b) == a.status = b.status /\ a.errors = b.errors /\ a.products = b.products

\* C14: an expiration_date that matches no accepted format ("2025-13-40")
\* raises no error and is treated as absent: product create, replace and
\* patch store what they store for the same request without expiration_date.
C14_InvalidDateTreatedAsAbsent ==
    \A base \in RequestsWithout("expiration_date") :
        LET req == WithField(base, "expiration_date", Str(InvalidDateText))
        IN  /\ SameStored(create_product(req), create_product(base))
            /\ \A id \in DOMAIN products :
                  /\ SameStored(replace_product(id, req), replace_product(id, base))
                  /\ SameStored(patch_product(id, req), patch_product(id, base))

\* the serialised row carries image data
CarriesImage(row) == "image_base64" \in DOMAIN row

\* the query string asks for include_image=true
AsksForImage(args) ==
    "include_image" \in DOMAIN args /\ args["include_image"] = Str(<<"t", "r", "u", "e">>)

\* C15: a response for a category or a product carries image_base64 only if
\* the request asked for include_image=true: the rows of get and list carry
\* it only then, and the responses of create, replace and update (patch),
\* which cannot ask for it, never carry it.
C15_ImageOnlyOnRequest ==
    /\ \A args \in CategoryArgs :
          /\ \A c \in DOMAIN categories :
                CarriesImage(get_category(c, args).body) => AsksForImage(args)
          /\ \A row \in {list_categories(args).body.categories[j] :
                              j \in 1..Cardinality(DOMAIN categories)} :
                CarriesImage(row) => AsksForImage(args)
          /\ \A p \in DOMAIN products :
                CarriesImage(get_product(p, args).body) => AsksForImage(args)
    /\ \A args \in ProductArgs :
          \A out \in {list_product(args)} :
              \A j \in DOMAIN out.body : CarriesImage(out.body[j]) => AsksForImage(args)
    /\ \A req \in ProductRequests :
          /\ ~CarriesImage(create_product(req).body)
          /\ \A p \in DOMAIN products :
                /\ ~CarriesImage(replace_product(p, req).body)
                /\ ~CarriesImage(patch_product(p, req).body)
    /\ \A req \in CategoryRequests :
          /\ ~CarriesImage(create_category(req).body)
          /\ \A c \in DOMAIN categories :
                /\ ~CarriesImage(replace_category(c, req).body)
                /\ ~CarriesImage(update_category(c, req).body)

\* the response 404 with the tables and the activity log as they were
NotFoundNothingDone(out) ==
    out.status = 404 /\ Unchanged(out) /\ out.log = log

\* C16: get, replace, patch/update and delete on a product id or a category
\* id that is not in the store return 404, change no product or category
\* and append no activity log entry.
C16_UnknownIdNotFound ==
    CanServe =>
    /\ \A cat_id \in TargetIds(categories) \ DOMAIN categories :
          /\ \A args \in CategoryArgs : NotFoundNothingDone(get_category(cat_id, args))
          /\ \A req \in CategoryRequests :
                /\ NotFoundNothingDone(replace_category(cat_id, req))
                /\ NotFoundNothingDone(update_category(cat_id, req))
          /\ \A req \in DeleteRequests : NotFoundNothingDone(delete_category(cat_id, req))
    /\ \A id \in TargetIds(products) \ DOMAIN products :
          /\ \A args \in CategoryArgs : NotFoundNothingDone(get_product(id, args))
          /\ \A req \in ProductRequests :
                /\ NotFoundNothingDone(replace_product(id, req))
                /\ NotFoundNothingDone(patch_product(id, req))
          /\ NotFoundNothingDone(delete_product(id))

\* a PATCH on an id the table does not hold was answered 404 while the table
\* holds a product
C16_Witness ==
    /\ last.op = "patch_product"
    /\ last.status = 404
    /\ last.id \notin DOMAIN products
    /\ DOMAIN products # {}

\* another category than cat_id holds the name
HeldByAnother(name, cat_id) ==
    \E c \in DOMAIN categories \ {cat_id} : categories[c].name = name

\* C19: replace_category with the category's own current name succeeds;
\* with a name held by a different category it returns 400 and changes
\* nothing; on success the description is the supplied value, or null when
\* the body omits description. (Stated of every PUT the server can take in
\* the state.)
C19_ReplaceCategory ==
    CanServe => \A cat_id \in DOMAIN categories, req \in CategoryRequests :
        \A out \in {replace_category(cat_id, req)} :
        LET name == Get(req.data, "name")
        IN  /\ name = categories[cat_id].name => out.status = 200
            /\ HeldByAnother(name, cat_id) =>
                  /\ out.status = 400
                  /\ out.errors = <<"Category name already exists">>
                  /\ Unchanged(out)
            /\ out.status = 200 =>
                  /\ out.categories[cat_id].name = name
                  /\ out.categories[cat_id].description =
                        (IF "description" \in DOMAIN req.data THEN req.data["description"]
                         ELSE Null)

\* a PUT that kept the name "a" of a category succeeded and the category
\* has no description, next to another category
C19_Witness ==
    /\ last.op = "replace_category"
    /\ last.status = 200
    /\ Cardinality(DOMAIN categories) >= 2
    /\ log # <<>>
    /\ log[Len(log)].details.names = <<<<"a">>, <<"a">>>>
    /\ categories[last.id].description = Null

\* the image the request supplies: the chosen file of a multipart body, else
\* the bytes its image_base64 decodes to, else none
SuppliedImage(req) ==
    IF req.file.present /\ req.file.filename # <<>> THEN req.file.content
    ELSE IF "image_base64" \in DOMAIN req.data /\ req.data["image_base64"] = Str(ValidImageText)
    THEN Bytes(256 + 66)
    ELSE Null

\* C20: update_category changes exactly the fields supplied among name,
\* description and image and leaves the others unchanged (an image that does
\* not decode counts as not supplied); a supplied name is rejected with 400
\* if it is empty or held by a different category, and accepted if it is the
\* category's own current name. (Stated of every PATCH the server can take
\* in the state.)
C20_UpdateCategory ==
    CanServe => \A cat_id \in DOMAIN categories, req \in CategoryRequests :
        \A out \in {update_category(cat_id, req)} :
        LET old == categories[cat_id]
            Has(key) == key \in DOMAIN req.data
        IN  /\ (Has("name") /\ req.data["name"] = Str(<<>>)) =>
                  out.status = 400 /\ Unchanged(out)
            /\ (Has("name") /\ HeldByAnother(req.data["name"], cat_id)) =>
                  out.status = 400 /\ Unchanged(out)
            /\ (Has("name") /\ req.data["name"] = old.name) => out.status = 200
            /\ ~Has("name") => out.status = 200
            /\ out.status = 200 =>
                  /\ out.products = products
                  /\ DOMAIN out.categories = DOMAIN categories
                  /\ \A c \in DOMAIN categories \ {cat_id} : out.categories[c] = categories[c]
                  /\ out.categories[cat_id].name = (IF Has("name") THEN req.data["name"] ELSE old.name)
                  /\ out.categories[cat_id].description =
                        (IF Has("description") THEN req.data["description"] ELSE old.description)
                  /\ out.categories[cat_id].category_image =
                        (IF SuppliedImage(req) # Null THEN SuppliedImage(req)
                         ELSE old.category_image)

\* a PATCH that supplied only a description succeeded on a category that has
\* an image, and the name and the image are as they were
C20_Witness ==
    /\ last.op = "update_category"
    /\ last.status = 200
    /\ log # <<>>
    /\ log[Len(log)].details.changes = <<"description updated">>
    /\ categories[last.id].description = Str(<<"d">>)
    /\ categories[last.id].category_image = Bytes(256 + 66)

\* the category handlers that write the activity log
LoggingOps == {"create_category", "replace_category", "update_category", "delete_category"}

\* the row the logged request wrote is committed: a created or changed
\* category is stored, a deleted one is gone
Committed(op, id) ==
    CASE op = "create_category" -> NewId(categories) \in DOMAIN categories'
      [] op = "delete_category" -> id \in DOMAIN categories /\ id \notin DOMAIN categories'
      [] OTHER -> id \in DOMAIN categories'

\* C21: the activity log is append-only. No category or product request
\* alters or removes an entry; a request answered 400 or 404 appends none;
\* an entry is appended only by a category request answered 200 or 201,
\* whose mutation is then committed.
C21_ActivityLogAppendOnly ==
    [][/\ Len(log') >= Len(log)
       /\ SubSeq(log', 1, Len(log)) = log
       /\ last'.status \in {400, 404} => log' = log
       /\ log' # log =>
            /\ Len(log') = Len(log) + 1
            /\ last'.status \in {200, 201}
            /\ last'.op \in LoggingOps
            /\ Committed(last'.op, last'.id)]_vars

\* a request is answered 400 or 404 after an entry was logged, and the entry
\* is still there
C21_Witness ==
    /\ log # <<>>
    /\ last.status \in {400, 404}
    /\ steps >= 2

\* C22: delete_product on an existing product answers 200 whatever the
\* product is, removes that product and no other, and leaves the categories
\* as they were.
C22_DeleteProduct ==
    \A id \in DOMAIN products :
        \A out \in {delete_product(id)} :
            /\ out.status = 200
            /\ out.errors = <<>>
            /\ DOMAIN out.products = DOMAIN products \ {id}
            /\ \A j \in DOMAIN products \ {id} : out.products[j] = products[j]
            /\ out.categories = categories

\* a product was deleted and another product is still stored
C22_Witness ==
    /\ last.op = "delete_product"
    /\ last.status = 200
    /\ products # << >>

\* the request carries the text under image_base64
CarriesText(req, text) ==
    "image_base64" \in DOMAIN req.data /\ req.data["image_base64"] = Str(text)

HasUpload(req) == req.file.present /\ req.file.filename # <<>>

\* the request without its image_base64 field
WithoutImageText(req) ==
    [req EXCEPT !.data = [key \in DOMAIN req.data \ {"image_base64"} |-> req.data[key]]]

\* C23: get_image_blob returns the uploaded file "image" when it has a
\* filename, whatever image_base64 says; otherwise the decoded image_base64
\* of the form, or of the JSON body; an image_base64 that does not decode
\* gives None and the request is served as if the field were absent.
C23_ImagePriority ==
    CanServe => \A req \in CategoryRequests :
        /\ HasUpload(req) => get_image_blob(req) = req.file.content
        /\ (~HasUpload(req) /\ CarriesText(req, ValidImageText)) =>
              get_image_blob(req) = Bytes(256 + 66)
        /\ (~HasUpload(req) /\ CarriesText(req, InvalidImageText)) =>
              get_image_blob(req) = Null
        /\ (~HasUpload(req) /\ "image_base64" \notin DOMAIN req.data) =>
              get_image_blob(req) = Null
        /\ CarriesText(req, InvalidImageText) =>
              \A out \in {create_category(req)},
                 plain \in {create_category(WithoutImageText(req))} :
                 /\ out.status = plain.status
                 /\ out.errors = plain.errors
                 /\ out.categories = plain.categories
        /\ \A out \in {create_category(req)} :
              out.status = 201 =>
                 out.categories[NewId(categories)].category_image = SuppliedImage(req)

\* a category was created from a form that carried an uploaded file, and
\* the stored image is the file's content
C23_Witness ==
    /\ last.op = "create_category"
    /\ last.status = 201
    /\ categories[NewId(categories) - 1].category_image = Bytes(256 + 67)

\* C24: stock_level and min_stock_level of every stored product are
\* integers, whichever of create, replace and patch wrote them.
C24_StockLevelsAreIntegers ==
    \A p \in DOMAIN products :
        /\ products[p].stock_level.k = "int"
        /\ products[p].min_stock_level.k = "int"

\* base64 text without one character of the alphabet: it decodes to b""
EmptyImageText == <<"!", "!", "!", "!">>

\* requests whose image is empty: such a text, or an uploaded empty file
EmptyImageRequests ==
    {[is_form |-> FALSE, data |-> [image_base64 |-> Str(EmptyImageText)], file |-> NoFile],
     [is_form |-> TRUE, data |-> << >>,
      file |-> [present |-> TRUE, filename |-> <<"p">>, content |-> Bytes(1)]]}

\* C27: no PUT or PATCH on a category or a product clears a stored image:
\* after a successful one the stored image is the one the request supplied
\* or, when it supplied none or one that does not decode, the one stored
\* before.
C27_ImageNeverCleared ==
    CanServe =>
        /\ \A cat_id \in {c \in DOMAIN categories : Truthy(categories[c].category_image)},
              req \in CategoryRequests \cup EmptyImageRequests :
             \A out \in {replace_category(cat_id, req), update_category(cat_id, req)} :
                out.status = 200 => Truthy(out.categories[cat_id].category_image)
        /\ \A id \in {p \in DOMAIN products : Truthy(products[p].image_blob)},
              req \in ProductRequests \cup EmptyImageRequests :
             \A out \in {replace_product(id, req), patch_product(id, req)} :
                out.status = 200 => Truthy(out.products[id].image_blob)

----------------------------------------------------------------------------
\* Properties of products entering and leaving a category (SpecRefs).

\* the products whose category_id is the id
ReferencedBy(cat_id) == {p \in DOMAIN products : products[p].category_id = Int_(cat_id)}

\* C26: a category whose deletion was refused because products referenced
\* it is deletable once no product references it any more, its products
\* having been deleted or moved by PUT or PATCH to another category or to
\* none: the next delete_category on it answers 200 and removes it.
C26_DeletableOnceUnreferenced ==
    [][/\ \A c \in refused \cap DOMAIN categories :
             ReferencedBy(c) = {} =>
                \A out \in {delete_category(c, NoRequest)} :
                   out.status = 200 /\ c \notin DOMAIN out.categories
       /\ (steps' = steps + 1 /\ last'.op = "delete_category"
              /\ last'.id \in refused \cap DOMAIN categories
              /\ ReferencedBy(last'.id) = {})
          => (last'.status = 200 /\ last'.id \notin DOMAIN categories')]_vars

\* a category was refused deletion, its product was moved elsewhere and is
\* still stored, and the category has now been deleted
C26_Witness ==
    /\ last.op = "delete_category"
    /\ last.status = 200
    /\ last.id \in refused
    /\ products # << >>

----------------------------------------------------------------------------
\* Properties of the API client (SpecClient).

\* the errors list of a response, empty when the response has none
ErrorsListOf(transport) ==
    IF transport.is_json /\ "errors" \in DOMAIN transport.data THEN transport.data["errors"]
    ELSE <<>>

\* the parsed JSON of a response, or its text when it is not JSON
PayloadOf(transport) == IF transport.is_json THEN transport.data ELSE transport.text

\* _request returned (data, status_code) exactly if the status is below 400,
\* and raised StockaDoodleAPIError if it is 400 or above
ReturnsBelow400(transport, result) ==
    /\ result.kind = "return" <=> transport.status_code < 400
    /\ result.kind = "return" =>
          result.data = PayloadOf(transport) /\ result.status_code = transport.status_code
    /\ transport.status_code >= 400 =>
          result.kind = "raise" /\ result.type = "StockaDoodleAPIError"

\* C17 as claimed: _request returns (data, status_code) exactly when the
\* server answers with a status below 400, and for every status of 400 or
\* above raises StockaDoodleAPIError with a message that joins the entries
\* of the errors list of the response.
C17_MessageJoinsErrorsList ==
    client.transport.kind = "response" =>
        /\ ReturnsBelow400(client.transport, client.result)
        /\ client.transport.status_code >= 400 =>
              client.result.message = "API Error: " \o Join(ErrorsListOf(client.transport), ", ")

\* C17 as amended: _request returns (data, status_code) exactly when the
\* server answers with a status below 400, and for every status of 400 or
\* above raises StockaDoodleAPIError; the message is "API Error: " and the
\* entries of the errors list joined by ", " when the response is a JSON
\* object with an errors list of strings, and "API Error: " and the text of
\* the response body when it has no errors list.
C17_RequestResult ==
    client.transport.kind = "response" =>
        /\ ReturnsBelow400(client.transport, client.result)
        /\ client.transport.status_code >= 400 =>
              client.result.message =
                  IF client.transport.is_json /\ "errors" \in DOMAIN client.transport.data
                  THEN "API Error: " \o Join(client.transport.data["errors"], ", ")
                  ELSE IF client.transport.is_json
                  THEN "API Error: " \o DictStr(client.transport.data)
                  ELSE "API Error: " \o client.transport.text

\* a create_category call for a name already held was answered 400 and
\* raised with the one entry of the errors list
C17_Witness ==
    /\ last.op = "create_category"
    /\ client.transport.status_code = 400
    /\ client.result.kind = "raise"
    /\ client.result.message = "API Error: Category name already exists"

\* what a caller of _request can tell an error by: the type of the exception
\* and the fixed head of its message
ErrorCategory(result) == <<result.type, result.prefix>>

\* C18: a request timeout and a refused connection give two distinct error
\* categories, and both differ from the category of an application error
\* (the answer to a 4xx or 5xx response).
C18_DistinctTransportErrors ==
    /\ ErrorCategory(_request(TimedOut)) # ErrorCategory(_request(Refused))
    /\ (client.transport.kind = "response" /\ client.result.kind = "raise") =>
          /\ ErrorCategory(client.result) # ErrorCategory(_request(TimedOut))
          /\ ErrorCategory(client.result) # ErrorCategory(_request(Refused))

----------------------------------------------------------------------------
\* Properties of concurrent category requests (SpecRace).

\* C9: the uniqueness check and the commit are separate steps: while one
\* request has passed the check for an unused name and has not committed,
\* a concurrent request with the same name passes the check too.
C9_CheckThenActRace ==
    \A w \in Workers :
        (workers[w].pc = "checked"
            /\ \A c \in DOMAIN categories : categories[c].name # workers[w].row.name)
        => \A req \in RaceRequests :
              Get(req.data, "name") = workers[w].row.name
                  => create_category(req).status = 201

\* two requests with the same unused name have both passed the check and
\* neither has committed
C9_Witness ==
    /\ workers[1].pc = "checked" /\ workers[2].pc = "checked"
    /\ workers[1].op = "create_category" /\ workers[2].op = "create_category"
    /\ workers[1].row.name = workers[2].row.name
    /\ \A c \in DOMAIN categories : categories[c].name # workers[1].row.name

\* C25: the unique index on the name makes the second of two concurrent
\* commits of one name fail: no two stored categories ever hold the same
\* name, a create that completed with 201 stored its row, and the request
\* whose commit the index refused ended in an error, not in 201.
C25_UniqueIndexSerialises ==
    /\ \A c, d \in DOMAIN categories :
          c # d => categories[c].name # categories[d].name
    /\ \A w \in Workers :
          (workers[w].pc = "done" /\ workers[w].op = "create_category"
               /\ workers[w].status = 201)
          => workers[w].id \in DOMAIN categories
    /\ (last.op = "create_category" /\ last.status = 201) =>
          \A c \in DOMAIN categories \ {last.id} : categories[c].name # categories[last.id].name

\* two concurrent creates of one name are over: one completed with 201, the
\* commit of the other was refused
C25_Witness ==
    /\ workers[1].pc = "done" /\ workers[2].pc = "done"
    /\ workers[1].op = "create_category" /\ workers[2].op = "create_category"
    /\ workers[1].row.name = workers[2].row.name
    /\ {workers[1].status, workers[2].status} = {201, 500}

----------------------------------------------------------------------------
\* Properties of the retailer metrics routes (SpecMetrics).

\* values of daily_quota that are not numbers
NotNumbers == {Str(<<"x">>), Str(<<>>), Str(<<"n", "a", "n">>), List}

\* values of daily_quota below zero
NegativeNumbers == {Int_(0 - 1), Str(<<"-", "1">>)}

\* C28: update_retailer_quota answers 400 when daily_quota is missing, is
\* not a number or is negative, and then makes no call of
\* SalesManager.update_retailer_quota and logs nothing; it logs only when
\* the call was made and stored the quota.
C28_QuotaValidated ==
    CanServe => \A user_id \in RetailerIds, req \in QuotaRequests :
        \A out \in {update_retailer_quota(user_id, req)} :
            LET daily_quota == Get(req.data, "daily_quota")
            IN  /\ (daily_quota = Null \/ daily_quota \in NotNumbers
                        \/ daily_quota \in NegativeNumbers)
                   => (out.status = 400 /\ out.sales = sales /\ out.log = log)
                /\ out.log # log =>
                      /\ out.status = 200
                      /\ Len(out.sales.quota_calls) = Len(sales.quota_calls) + 1
                      /\ user_id \in DOMAIN sales.metrics
                      /\ out.sales.metrics[user_id].daily_quota = float_(daily_quota).value

----------------------------------------------------------------------------
\* Properties of the MFA dialog (SpecMfa).

\* the API accepted the code: a response below 400 that carries a user
CodeAccepted(transport) ==
    /\ transport.kind = "response"
    /\ transport.status_code < 400
    /\ transport.is_json
    /\ "user" \in DOMAIN transport.data

\* C30: verify_code sends a code to the API only when it is 6 digits; when
\* the API accepted the code, the dialog has emitted mfa_verified with the
\* user of the response and is closed as accepted; otherwise it has emitted
\* nothing and is not accepted.
C30_VerifyCode ==
    /\ \A j \in 1..Len(mfa.sent) : Len(mfa.sent[j]) = 6 /\ AllDigits(mfa.sent[j])
    /\ (mfa.sent # <<>> /\ CodeAccepted(client.transport)) =>
          (mfa.state = "accepted" /\ mfa.emitted = <<client.transport.data["user"]>>)
    /\ (mfa.sent # <<>> /\ ~CodeAccepted(client.transport)) =>
          (mfa.state # "accepted" /\ mfa.emitted = <<>>)

====
